---- MODULE Spec2Model ----
(***************************************************************************)
(* Model of scripts/terraform_to_json_schema.py: the Terraform type        *)
(* expression parser (TerraformTypeParser), the schema generator           *)
(* (GenericJSONSchemaGenerator) and the enum extraction from validation    *)
(* conditions.                                                             *)
(*                                                                         *)
(* A Python str is a sequence of one-character strings, a dict with        *)
(* literal keys is a record, an insertion-ordered dict keyed by source     *)
(* text (`properties`) is a sequence of [name, schema] entries.            *)
(***************************************************************************)
EXTENDS Integers, Sequences, FiniteSets, TLC

(***************************************************************************)
(* Python str primitives                                                   *)
(***************************************************************************)
IsSpace(c) == c \in {" ", "\t", "\n"}

IsQuote(c) == c \in {"\"", "'"}

\* TLC evaluates an operator's arguments on demand; testing a value makes it
\* evaluate at that point, which keeps the evaluation of a long loop shallow
Evaluated(v) == v = v

Min(a, b) == IF a < b THEN a ELSE b

Max(a, b) == IF a > b THEN a ELSE b

\* text[i] with Python's 0-based index
At(text, i) == text[i + 1]

\* text[i:j] for 0 <= i, 0 <= j (clamped to the length, empty when j <= i)
Slice(text, i, j) ==
    LET hi == Min(j, Len(text))
    IN  IF hi <= i THEN << >> ELSE SubSeq(text, i + 1, hi)

\* text[i:]
SliceFrom(text, i) == Slice(text, i, Len(text))

\* text[1:-1]
DropEnds(text) == Slice(text, 1, Len(text) - 1)

StartsWith(text, prefix) ==
    /\ Len(prefix) <= Len(text)
    /\ SubSeq(text, 1, Len(prefix)) = prefix

EndsWith(text, suffix) ==
    /\ Len(suffix) <= Len(text)
    /\ SubSeq(text, Len(text) - Len(suffix) + 1, Len(text)) = suffix

Least(set) == CHOOSE i \in set : \A j \in set : i <= j

Greatest(set) == CHOOSE i \in set : \A j \in set : j <= i

\* the first of the positions, `none` when there is none
FirstOf(hits, none) == IF hits = {} THEN none ELSE Least(hits)

\* the text from the first to the last of the positions kept
Kept(text, keep) ==
    IF keep = {} THEN << >> ELSE SubSeq(text, Least(keep), Greatest(keep))

\* str.strip()
Strip(text) == Kept(text, { i \in 1..Len(text) : ~IsSpace(text[i]) })

\* str.find(c) for a single character: -1 when absent
Find(text, c) == FirstOf({ i \in 0..(Len(text) - 1) : text[i + 1] = c }, -1)

\* number of leading whitespace characters of text[from:]
RECURSIVE SkipSpaces(_, _)
SkipSpaces(text, from) ==
    IF from < Len(text) /\ IsSpace(At(text, from))
    THEN SkipSpaces(text, from + 1)
    ELSE from

(***************************************************************************)
(* Source keywords                                                         *)
(***************************************************************************)
KwString == <<"s","t","r","i","n","g">>
KwNumber == <<"n","u","m","b","e","r">>
KwBool == <<"b","o","o","l">>
KwBoolean == <<"b","o","o","l","e","a","n">>
KwAny == <<"a","n","y">>
KwList == <<"l","i","s","t">>
KwMap == <<"m","a","p">>
KwSet == <<"s","e","t">>
KwObject == <<"o","b","j","e","c","t">>
KwOptional == <<"o","p","t","i","o","n","a","l">>
KwId == <<"i","d">>
KwTrue == <<"t","r","u","e">>
KwFalse == <<"f","a","l","s","e">>
KwNull == <<"n","u","l","l">>
KwArray == <<"a","r","r","a","y">>
KwUuid == <<"u","u","i","d">>
InterpOpen == <<"$","{">>

(***************************************************************************)
(* TerraformTypeParser._find_matching_paren                                *)
(***************************************************************************)
\* one iteration of the while loop at position i; the loop has ended once
\* count is 0
FindMatchingParenStep(text, st, i) ==
    IF st.count > 0
    THEN [pos |-> i + 1,
          count |-> IF At(text, i) = "(" THEN st.count + 1
                    ELSE IF At(text, i) = ")" THEN st.count - 1
                    ELSE st.count]
    ELSE st

RECURSIVE FindMatchingParenLoop(_, _, _, _)
\* the iterations for the positions lo..hi, run in two halves
FindMatchingParenLoop(text, lo, hi, st) ==
    IF lo > hi THEN st
    ELSE IF lo = hi THEN FindMatchingParenStep(text, st, lo)
    ELSE LET mid == (lo + hi) \div 2
             left == FindMatchingParenLoop(text, lo, mid, st)
         IN  IF Evaluated(left)
             THEN FindMatchingParenLoop(text, mid + 1, hi, left)
             ELSE left

_find_matching_paren(text, start_pos) ==
    FindMatchingParenLoop(text, start_pos + 1, Len(text) - 1,
                          [pos |-> start_pos + 1, count |-> 1]).pos - 1

(***************************************************************************)
(* TerraformTypeParser._split_by_top_level_comma                           *)
(***************************************************************************)
\* the scanner's locals before the first character
SplitStart ==
    [parts |-> << >>, current_part |-> << >>, paren_count |-> 0,
     brace_count |-> 0, bracket_count |-> 0, in_string |-> FALSE,
     string_char |-> ""]

\* SplitStep with the comma test looking at the parentheses only
SplitStep_ParenOnly(s, char) ==
    LET keep == [s EXCEPT !.current_part = Append(@, char)]
    IN  IF IsQuote(char) /\ ~s.in_string
        THEN [keep EXCEPT !.in_string = TRUE, !.string_char = char]
        ELSE IF char = s.string_char /\ s.in_string
        THEN [keep EXCEPT !.in_string = FALSE, !.string_char = ""]
        ELSE IF s.in_string THEN keep
        ELSE IF char = "(" THEN [keep EXCEPT !.paren_count = @ + 1]
        ELSE IF char = ")" THEN [keep EXCEPT !.paren_count = @ - 1]
        ELSE IF char = "," /\ s.paren_count = 0
        THEN [s EXCEPT !.parts = Append(@, Strip(s.current_part)),
                       !.current_part = << >>]
        ELSE keep

\* one iteration of `for char in text`
SplitStep(s, char) ==
    LET keep == [s EXCEPT !.current_part = Append(@, char)]
    IN  IF IsQuote(char) /\ ~s.in_string
        THEN [keep EXCEPT !.in_string = TRUE, !.string_char = char]
        ELSE IF char = s.string_char /\ s.in_string
        THEN [keep EXCEPT !.in_string = FALSE, !.string_char = ""]
        ELSE IF s.in_string THEN keep
        ELSE IF char = "(" THEN [keep EXCEPT !.paren_count = @ + 1]
        ELSE IF char = ")" THEN [keep EXCEPT !.paren_count = @ - 1]
        ELSE IF char = "{" THEN [keep EXCEPT !.brace_count = @ + 1]
        ELSE IF char = "}" THEN [keep EXCEPT !.brace_count = @ - 1]
        ELSE IF char = "[" THEN [keep EXCEPT !.bracket_count = @ + 1]
        ELSE IF char = "]" THEN [keep EXCEPT !.bracket_count = @ - 1]
        ELSE IF char = "," /\ s.paren_count = 0 /\ s.brace_count = 0
                /\ s.bracket_count = 0
        THEN [s EXCEPT !.parts = Append(@, Strip(s.current_part)),
                       !.current_part = << >>]
        ELSE keep

RECURSIVE SplitScan(_, _, _, _)
\* the iterations for the characters lo..hi, run in two halves
SplitScan(text, lo, hi, s) ==
    IF lo > hi THEN s
    ELSE IF lo = hi THEN SplitStep(s, text[lo])
    ELSE LET mid == (lo + hi) \div 2
             left == SplitScan(text, lo, mid, s)
         IN  IF Evaluated(left)
             THEN SplitScan(text, mid + 1, hi, left)
             ELSE left

\* what follows the loop: the last part is kept when it is not blank
SplitEnd(s) ==
    IF Strip(s.current_part) # << >>
    THEN Append(s.parts, Strip(s.current_part))
    ELSE s.parts

_split_by_top_level_comma(text) ==
    SplitEnd(SplitScan(text, 1, Len(text), SplitStart))

(***************************************************************************)
(* Python dict and value encodings                                         *)
(***************************************************************************)
\* {} (the schema of `any`, an empty properties value)
EmptyDict == [k \in {} |-> TRUE]

HasKey(dict, key) == key \in DOMAIN dict

\* dict[key] = value
SetKey(dict, key, value) == (key :> value) @@ dict

\* dict.get("type")
TypeOf(schema) == IF HasKey(schema, "type") THEN schema.type ELSE "None"

\* Python values that a `default` can hold
PyStr(text) == [kind |-> "str", text |-> text, num |-> 0]
PyBool(b) == [kind |-> "bool", text |-> IF b THEN KwTrue ELSE KwFalse, num |-> 0]
\* True as the value of additionalProperties, whose other values are schemas
PyTrue == [bool |-> TRUE]
PyNone == [kind |-> "None", text |-> << >>, num |-> 0]
\* a dict keeps its items in insertion order
PyDict(items) == [kind |-> "dict", items |-> items]
PyList(elems) == [kind |-> "list", elems |-> elems]
PyEmptyDict == PyDict(<< >>)
PyEmptyList == PyList(<< >>)
PyInt(n) == [kind |-> "int", text |-> << >>, num |-> n]
\* a float keeps its digits: num is the value scaled by 10^Len(text)
PyFloat(n, frac) == [kind |-> "float", text |-> frac, num |-> n]

\* position (1-based) of a key in an ordered dict, 0 when absent
PropIndex(properties, name) ==
    LET hits == { i \in 1..Len(properties) : properties[i].name = name }
    IN  IF hits = {} THEN 0 ELSE CHOOSE i \in hits : TRUE

HasProp(properties, name) == PropIndex(properties, name) # 0

PropSchema(properties, name) == properties[PropIndex(properties, name)].schema

\* properties[name] = schema: a new key goes last, an old key keeps its place
SetProp(properties, name, schema) ==
    IF HasProp(properties, name)
    THEN [properties EXCEPT ![PropIndex(properties, name)].schema = schema]
    ELSE Append(properties, [name |-> name, schema |-> schema])

\* list(properties.keys())
PropNames(properties) == [i \in 1..Len(properties) |-> properties[i].name]

RECURSIVE DropProp(_, _)
\* properties.pop(name, ...): the remaining entries, in order
DropProp(properties, name) ==
    IF properties = << >> THEN << >>
    ELSE (IF Head(properties).name = name THEN << >> ELSE <<Head(properties)>>)
         \o DropProp(Tail(properties), name)

InSeq(x, seq) == \E i \in 1..Len(seq) : seq[i] = x

(***************************************************************************)
(* TerraformTypeParser: schema constructors                                *)
(***************************************************************************)
\* _create_simple_type that gives `any` the schema of a string
_create_simple_type_AnyAsString(type_name) ==
    IF type_name = KwNumber THEN [type |-> "number"]
    ELSE IF type_name = KwBool THEN [type |-> "boolean"]
    ELSE [type |-> "string"]

_create_simple_type(type_name) ==
    IF type_name = KwString THEN [type |-> "string"]
    ELSE IF type_name = KwNumber THEN [type |-> "number"]
    ELSE IF type_name = KwBool THEN [type |-> "boolean"]
    ELSE IF type_name = KwAny THEN EmptyDict
    ELSE [type |-> "string"]

\* the injected identifier property
IdSchema ==
    [type |-> "string", format |-> "uuid", default |-> PyStr(<< >>),
     options |-> [hidden |-> TRUE]]

\* returns the mutated schema and parser
_add_id_field_to_schema(schema, self) ==
    IF HasKey(schema, "properties") /\ ~HasProp(schema.properties, KwId)
    THEN [schema |-> [schema EXCEPT !.properties = SetProp(@, KwId, IdSchema)],
          self |-> [self EXCEPT !.optional_fields = @ \cup {KwId}]]
    ELSE [schema |-> schema, self |-> self]

\* the array of the element as _add_id_field_to_schema left it
ListOf(added) ==
    [schema |-> [type |-> "array", items |-> added.schema], self |-> added.self]

\* _create_list_type without the depth test
_create_list_type_AnyDepth(element_schema, depth, self) ==
    ListOf(IF TypeOf(element_schema) = "object"
           THEN _add_id_field_to_schema(element_schema, self)
           ELSE [schema |-> element_schema, self |-> self])

_create_list_type(element_schema, depth, self) ==
    ListOf(IF TypeOf(element_schema) = "object" /\ depth = 0
           THEN _add_id_field_to_schema(element_schema, self)
           ELSE [schema |-> element_schema, self |-> self])

_create_map_type(value_schema) ==
    [type |-> "object", additionalProperties |-> value_schema]

_create_set_type(element_schema) ==
    [type |-> "array", items |-> element_schema, uniqueItems |-> TRUE]

\* the key under which _parse_object_content hands over the required list
ReqSentinel ==
    <<"_","_","r","e","q","u","i","r","e","d","_","f","i","e","l","d","s","_","_">>

\* content is what _parse_object_content returns: the ordered properties
\* with the entry ReqSentinel, kept here in its own field
_create_object_type(content, depth) ==
    LET required_list == content.required_fields
        properties == DropProp(content.properties, ReqSentinel)
        schema == [type |-> "object", additionalProperties |-> PyTrue,
                   properties |-> properties]
    IN  IF required_list # << >>
        THEN SetKey(schema, "required", required_list)
        ELSE schema

(***************************************************************************)
(* TerraformTypeParser: text extraction                                    *)
(***************************************************************************)
RECURSIVE _clean_expression_loop(_)
\* while expr.startswith("${") and expr.endswith("}"): expr = expr[2:-1]
_clean_expression_loop(expr) ==
    IF StartsWith(expr, InterpOpen) /\ EndsWith(expr, <<"}">>)
    THEN _clean_expression_loop(Slice(expr, 2, Len(expr) - 1))
    ELSE expr

_clean_expression(expr) == Strip(_clean_expression_loop(expr))

\* match.end() of re.match(rf"{type_name}\s*\(", expr[i:]) + i, or -1
KwOpenEnd(expr, i, type_name) ==
    LET after == i + Len(type_name)
        paren == SkipSpaces(expr, after)
    IN  IF /\ Slice(expr, i, after) = type_name
           /\ paren < Len(expr)
           /\ At(expr, paren) = "("
        THEN paren + 1
        ELSE -1

\* expr[start:end], start being the end of the match
InnerFrom(expr, start) == Slice(expr, start, _find_matching_paren(expr, start - 1))

_extract_inner_type(expr, type_name) ==
    LET Matched(hits) ==
            IF hits = {} THEN KwString
            ELSE InnerFrom(expr, KwOpenEnd(expr, Least(hits), type_name))
    IN  Matched({ i \in 0..(Len(expr) - 1) : KwOpenEnd(expr, i, type_name) # -1 })

\* [part.strip() for part in parts]
StripAll(parts) == [i \in 1..Len(parts) |-> Strip(parts[i])]

_extract_optional_parts(expr) ==
    LET From(start) ==
            IF start = -1 THEN <<KwString>>
            ELSE StripAll(_split_by_top_level_comma(
                     Slice(expr, start + 1, _find_matching_paren(expr, start))))
    IN  From(Find(expr, "("))

\* re.search(r'^\s*["\']?([^"\':]+)["\']?\s*:\s*(.+)$', pair): the name runs
\* from after an optional opening quote to the first quote or colon, an
\* optional closing quote and blanks may follow, then the colon; the rest
\* must be non-empty and `.` matches no line break
ColonMatch(pair) ==
    LET Groups(q, r, colon, ok) ==
            [matched |-> ok,
             name |-> IF ok THEN Strip(Slice(pair, q, r)) ELSE << >>,
             type_str |-> IF ok THEN Strip(SliceFrom(pair, colon + 1)) ELSE << >>]
        \* the colon at `colon`, and after it blanks and a non-empty rest
        Rest(q, r, colon, rest) ==
            Groups(q, r, colon,
                   /\ r > q
                   /\ colon < Len(pair)
                   /\ At(pair, colon) = ":"
                   /\ \E s \in (colon + 1)..rest :
                         /\ s < Len(pair)
                         /\ \A i \in s..(Len(pair) - 1) : At(pair, i) # "\n")
        AtColon(q, r, colon) == Rest(q, r, colon, SkipSpaces(pair, colon + 1))
        \* the name stops at r: an optional closing quote and blanks follow
        Name(q, r) ==
            AtColon(q, r, IF r < Len(pair) /\ IsQuote(At(pair, r))
                        THEN SkipSpaces(pair, r + 1)
                        ELSE r)
        \* the name starts at q
        Start(q) ==
            Name(q, FirstOf({ i \in q..(Len(pair) - 1) :
                                IsQuote(At(pair, i)) \/ At(pair, i) = ":" },
                            Len(pair)))
        Lead(lead) ==
            Start(IF lead < Len(pair) /\ IsQuote(At(pair, lead))
                  THEN lead + 1 ELSE lead)
    IN  Lead(SkipSpaces(pair, 0))

(***************************************************************************)
(* TerraformTypeParser._parse_default_value                                *)
(***************************************************************************)
Digits == {"0","1","2","3","4","5","6","7","8","9"}

DigitVal(c) ==
    CASE c = "0" -> 0 [] c = "1" -> 1 [] c = "2" -> 2 [] c = "3" -> 3
      [] c = "4" -> 4 [] c = "5" -> 5 [] c = "6" -> 6 [] c = "7" -> 7
      [] c = "8" -> 8 [] c = "9" -> 9

\* str.lower() on one character
LowerChar(c) ==
    CASE c = "A" -> "a" [] c = "B" -> "b" [] c = "C" -> "c" [] c = "D" -> "d"
      [] c = "E" -> "e" [] c = "F" -> "f" [] c = "G" -> "g" [] c = "H" -> "h"
      [] c = "I" -> "i" [] c = "J" -> "j" [] c = "K" -> "k" [] c = "L" -> "l"
      [] c = "M" -> "m" [] c = "N" -> "n" [] c = "O" -> "o" [] c = "P" -> "p"
      [] c = "Q" -> "q" [] c = "R" -> "r" [] c = "S" -> "s" [] c = "T" -> "t"
      [] c = "U" -> "u" [] c = "V" -> "v" [] c = "W" -> "w" [] c = "X" -> "x"
      [] c = "Y" -> "y" [] c = "Z" -> "z" [] OTHER -> c

Lower(text) == [i \in 1..Len(text) |-> LowerChar(text[i])]

RECURSIVE DigitsValue(_)
DigitsValue(digits) ==
    IF digits = << >> THEN 0
    ELSE 10 * DigitsValue(SubSeq(digits, 1, Len(digits) - 1))
         + DigitVal(digits[Len(digits)])

AllDigits(text) == \A i \in 1..Len(text) : text[i] \in Digits

HasSign(text) == text # << >> /\ text[1] \in {"+", "-"}

Unsigned(text) == IF HasSign(text) THEN Tail(text) ELSE text

Signed(text, n) == IF HasSign(text) /\ text[1] = "-" THEN 0 - n ELSE n

\* int(value_str) succeeds: an optional sign and decimal digits
IsIntLiteral(text) == Unsigned(text) # << >> /\ AllDigits(Unsigned(text))

\* float(value_str) succeeds for a text with one ".": digits on at least
\* one side of the point
IsFloatLiteral(text) ==
    LET Around(u, dot) ==
            /\ dot # -1
            /\ AllDigits(Slice(u, 0, dot))
            /\ AllDigits(SliceFrom(u, dot + 1))
            /\ Len(u) > 1
    IN  Around(Unsigned(text), Find(Unsigned(text), "."))

RECURSIVE DropTrailingZeros(_)
DropTrailingZeros(digits) ==
    IF digits # << >> /\ digits[Len(digits)] = "0"
    THEN DropTrailingZeros(SubSeq(digits, 1, Len(digits) - 1))
    ELSE digits

FloatValue(text) ==
    LET Value(u, dot, frac) ==
            PyFloat(Signed(text, DigitsValue(Slice(u, 0, dot) \o frac)), frac)
        Around(u, dot) == Value(u, dot, DropTrailingZeros(SliceFrom(u, dot + 1)))
    IN  Around(Unsigned(text), Find(Unsigned(text), "."))

\* value_str is the stripped text
DefaultOf(value_str) ==
    IF \/ StartsWith(value_str, <<"\"">>) /\ EndsWith(value_str, <<"\"">>)
       \/ StartsWith(value_str, <<"'">>) /\ EndsWith(value_str, <<"'">>)
    THEN PyStr(DropEnds(value_str))
    ELSE IF Lower(value_str) \in {KwTrue, KwFalse}
    THEN PyBool(Lower(value_str) = KwTrue)
    ELSE IF Lower(value_str) = KwNull THEN PyNone
    ELSE IF value_str = <<"{", "}">> THEN PyEmptyDict
    ELSE IF value_str = <<"[", "]">> THEN PyEmptyList
    ELSE IF Find(value_str, ".") # -1 /\ IsFloatLiteral(value_str)
    THEN FloatValue(value_str)
    ELSE IF Find(value_str, ".") = -1 /\ IsIntLiteral(value_str)
    THEN PyInt(Signed(value_str, DigitsValue(Unsigned(value_str))))
    ELSE PyStr(value_str)

_parse_default_value(raw) == DefaultOf(Strip(raw))

(***************************************************************************)
(* TerraformTypeParser: the recursive descent                              *)
(*                                                                         *)
(* `self` is the parser instance [required_fields, optional_fields,        *)
(* current_depth]; every method returns the instance as it leaves it,      *)
(* and `raised` names the exception that ended the call ("" for none).     *)
(***************************************************************************)
NewParser == [required_fields |-> {}, optional_fields |-> {}, current_depth |-> 0]

Return(schema, self) == [schema |-> schema, self |-> self, raised |-> ""]

Raise(error, self) == [schema |-> EmptyDict, self |-> self, raised |-> error]

\* the required list built from an object's own scope
LocalRequired(properties, local_optional_fields) ==
    LET Keep(i) == /\ properties[i].name # KwId
                   /\ ~HasKey(properties[i].schema, "default")
                   /\ properties[i].name \notin local_optional_fields
        RECURSIVE Build(_)
        Build(i) == IF i > Len(properties) THEN << >>
                    ELSE (IF Keep(i) THEN <<properties[i].name>> ELSE << >>)
                         \o Build(i + 1)
    IN  Build(1)

\* the required list parse_type_expression builds for the outermost schema
OuterRequired(properties, optional_fields) ==
    LET Keep(i) == /\ properties[i].name \notin optional_fields
                   /\ properties[i].name # KwId
        RECURSIVE Build(_)
        Build(i) == IF i > Len(properties) THEN << >>
                    ELSE (IF Keep(i) THEN <<properties[i].name>> ELSE << >>)
                         \o Build(i + 1)
    IN  Build(1)

\* prop_type_str of a matched pair: quotes removed, interpolation cleaned
PropTypeStr(type_str) ==
    LET unquoted ==
            IF \/ StartsWith(type_str, <<"\"">>) /\ EndsWith(type_str, <<"\"">>)
               \/ StartsWith(type_str, <<"'">>) /\ EndsWith(type_str, <<"'">>)
            THEN DropEnds(type_str)
            ELSE type_str
    IN  _clean_expression(unquoted)

\* content with its surrounding braces removed
ObjectBody(content) ==
    LET Unbraced(stripped) ==
            IF StartsWith(stripped, <<"{">>) /\ EndsWith(stripped, <<"}">>)
            THEN DropEnds(stripped)
            ELSE stripped
    IN  Unbraced(Strip(content))

RECURSIVE _parse_expression(_, _, _)
RECURSIVE _parse_object_content(_, _)
RECURSIVE ParsePairs(_, _, _, _)

\* field_name None is the empty text: both fail `if field_name`
_parse_expression(expr, field_name, self) ==
    IF expr \in {KwString, KwNumber, KwBool, KwAny}
    THEN Return(_create_simple_type(expr), self)
    ELSE IF StartsWith(expr, KwList \o <<"(">>)
    THEN LET current_depth == self.current_depth
             Restored(made) ==
                 Return(made.schema, [made.self EXCEPT !.current_depth = current_depth])
             Element(inner) ==
                 IF inner.raised # "" THEN inner
                 ELSE Restored(_create_list_type(inner.schema, current_depth, inner.self))
         IN  Element(_parse_expression(_extract_inner_type(expr, KwList), field_name,
                                       [self EXCEPT !.current_depth = current_depth + 1]))
    ELSE IF StartsWith(expr, KwMap \o <<"(">>)
    THEN LET Value(inner) ==
                 IF inner.raised # "" THEN inner
                 ELSE Return(_create_map_type(inner.schema), inner.self)
         IN  Value(_parse_expression(_extract_inner_type(expr, KwMap), field_name, self))
    ELSE IF StartsWith(expr, KwSet \o <<"(">>)
    THEN LET Element(inner) ==
                 IF inner.raised # "" THEN inner
                 ELSE Return(_create_set_type(inner.schema), inner.self)
         IN  Element(_parse_expression(_extract_inner_type(expr, KwSet), field_name, self))
    ELSE IF StartsWith(expr, KwObject \o <<"(">>)
    THEN LET current_depth == self.current_depth
             Object(content) ==
                 IF content.raised # "" THEN Raise(content.raised, content.self)
                 ELSE Return(_create_object_type(content, current_depth), content.self)
         IN  Object(_parse_object_content(_extract_inner_type(expr, KwObject), self))
    ELSE IF StartsWith(expr, KwOptional \o <<"(">>)
    THEN LET marked == IF field_name # << >>
                       THEN [self EXCEPT !.optional_fields = @ \cup {field_name}]
                       ELSE self
             Inner(parts, inner) ==
                 IF inner.raised # "" THEN inner
                 ELSE IF Len(parts) > 1
                 THEN Return(SetKey(inner.schema, "default",
                                    _parse_default_value(parts[2])),
                             inner.self)
                 ELSE inner
             Parts(parts) ==
                 IF parts = << >> THEN Raise("IndexError", self)
                 ELSE Inner(parts, _parse_expression(parts[1], field_name, marked))
         IN  Parts(_extract_optional_parts(expr))
    ELSE Return([type |-> "string"], self)

\* the loop over property_pairs from index i on
ParsePairs(property_pairs, i, properties, self) ==
    IF i > Len(property_pairs)
    THEN [properties |-> properties, self |-> self, raised |-> ""]
    ELSE LET Parsed(prop_name, prop) ==
                 IF prop.raised # ""
                 THEN [properties |-> properties, self |-> prop.self,
                       raised |-> prop.raised]
                 ELSE ParsePairs(property_pairs, i + 1,
                                 SetProp(properties, prop_name, prop.schema),
                                 prop.self)
             Matched(pair, colon_match) ==
                 IF pair = << >> \/ ~colon_match.matched
                 THEN ParsePairs(property_pairs, i + 1, properties, self)
                 ELSE Parsed(colon_match.name,
                             _parse_expression(PropTypeStr(colon_match.type_str),
                                               colon_match.name, self))
             Pair(pair) == Matched(pair, ColonMatch(pair))
         IN  Pair(Strip(property_pairs[i]))

\* _parse_object_content that leaves the object's own optional set in place
_parse_object_content_NoRestore(content, self) ==
    LET Parsed(parsed) ==
            IF parsed.raised # ""
            THEN [properties |-> << >>, required_fields |-> << >>,
                  local_optional_fields |-> {},
                  self |-> parsed.self, raised |-> parsed.raised]
            ELSE [properties |-> SetProp(parsed.properties, ReqSentinel, EmptyDict),
                  required_fields |->
                      LocalRequired(parsed.properties, parsed.self.optional_fields),
                  local_optional_fields |-> parsed.self.optional_fields,
                  self |-> parsed.self,
                  raised |-> ""]
    IN  Parsed(ParsePairs(_split_by_top_level_comma(ObjectBody(content)), 1, << >>,
                          [self EXCEPT !.optional_fields = {}]))

_parse_object_content(content, self) ==
    LET parent_optional_fields == self.optional_fields
        Parsed(parsed) ==
            IF parsed.raised # ""
            THEN [properties |-> << >>, required_fields |-> << >>,
                  local_optional_fields |-> {},
                  self |-> parsed.self, raised |-> parsed.raised]
            ELSE [properties |-> SetProp(parsed.properties, ReqSentinel, EmptyDict),
                  required_fields |->
                      LocalRequired(parsed.properties, parsed.self.optional_fields),
                  local_optional_fields |-> parsed.self.optional_fields,
                  self |-> [parsed.self EXCEPT
                               !.optional_fields = parent_optional_fields],
                  raised |-> ""]
    IN  Parsed(ParsePairs(_split_by_top_level_comma(ObjectBody(content)), 1, << >>,
                          [self EXCEPT !.optional_fields = {}]))

\* parse_type_expression without the reset of the fields at its start
parse_type_expression_NoReset(type_expr, self) ==
    LET Required(parsed, required_list) ==
            IF required_list # << >>
            THEN Return(SetKey(parsed.schema, "required", required_list), parsed.self)
            ELSE parsed
        Parsed(parsed) ==
            IF parsed.raised # "" THEN parsed
            ELSE IF HasKey(parsed.schema, "properties")
            THEN Required(parsed, OuterRequired(parsed.schema.properties,
                                                parsed.self.optional_fields))
            ELSE parsed
    IN  Parsed(_parse_expression(_clean_expression(type_expr), << >>, self))

\* returns the schema, the parser as the call leaves it, and the exception
parse_type_expression(type_expr, self) ==
    LET Required(parsed, required_list) ==
            IF required_list # << >>
            THEN Return(SetKey(parsed.schema, "required", required_list), parsed.self)
            ELSE parsed
        Parsed(parsed) ==
            IF parsed.raised # "" THEN parsed
            ELSE IF HasKey(parsed.schema, "properties")
            THEN Required(parsed, OuterRequired(parsed.schema.properties,
                                                parsed.self.optional_fields))
            ELSE parsed
    IN  Parsed(_parse_expression(_clean_expression(type_expr), << >>,
                                 [self EXCEPT !.required_fields = {},
                                              !.optional_fields = {},
                                              !.current_depth = 0]))

(***************************************************************************)
(* Python values handed to the generator (the parsed HCL)                  *)
(***************************************************************************)
Item(key, value) == [key |-> key, value |-> value]

KeyIndex(dict, key) ==
    LET hits == { i \in 1..Len(dict.items) : dict.items[i].key = key }
    IN  IF hits = {} THEN 0 ELSE CHOOSE i \in hits : TRUE

\* key in dict
InDict(dict, key) == KeyIndex(dict, key) # 0

\* dict[key]
Lookup(dict, key) == dict.items[KeyIndex(dict, key)].value

KeyType == <<"t","y","p","e">>
KeyDescription == <<"d","e","s","c","r","i","p","t","i","o","n">>
KeyDefault == <<"d","e","f","a","u","l","t">>
KeyValidation == <<"v","a","l","i","d","a","t","i","o","n">>
KeyCondition == <<"c","o","n","d","i","t","i","o","n">>
KeyItem == <<"i","t","e","m">>
KeyItems == <<"i","t","e","m","s">>
KwContains == <<"c","o","n","t","a","i","n","s">>

(***************************************************************************)
(* GenericJSONSchemaGenerator: enum extraction from validation conditions  *)
(***************************************************************************)
Letters ==
    {"a","b","c","d","e","f","g","h","i","j","k","l","m","n","o","p","q","r",
     "s","t","u","v","w","x","y","z","A","B","C","D","E","F","G","H","I","J",
     "K","L","M","N","O","P","Q","R","S","T","U","V","W","X","Y","Z"}

\* the regex class \w
IsWord(c) == c \in Letters \cup Digits \cup {"_"}

\* first position >= from whose character satisfies no run condition, i.e.
\* the end of the maximal run of word characters starting at from
RECURSIVE WordEnd(_, _)
WordEnd(text, from) ==
    IF from < Len(text) /\ IsWord(At(text, from))
    THEN WordEnd(text, from + 1)
    ELSE from

\* index of the first occurrence of c at or after from, Len(text) when none
FirstAt(text, c, from) ==
    FirstOf({ i \in from..(Len(text) - 1) : At(text, i) = c }, Len(text))

IsAt(text, i, c) == i < Len(text) /\ At(text, i) = c

NoMatch == [matched |-> FALSE, end |-> 0, array_content |-> << >>,
            property_name |-> << >>]

\* the part shared by both patterns, matched at position i:
\*   contains\s*\(\s*\[([^\]]+)\]\s*,\s*
\* gives the array content and the position after the comma
ContainsHead(text, i) ==
    LET Groups(open, bracket, close, comma) ==
            [matched |-> /\ Slice(text, i, i + Len(KwContains)) = KwContains
                         /\ IsAt(text, open, "(")
                         /\ IsAt(text, bracket, "[")
                         /\ close < Len(text)
                         /\ close > bracket + 1
                         /\ IsAt(text, comma, ","),
             array_content |-> Slice(text, bracket + 1, close),
             after |-> comma + 1]
        Close(open, bracket, close) ==
            Groups(open, bracket, close, SkipSpaces(text, close + 1))
        Bracket(open, bracket) ==
            Close(open, bracket, FirstAt(text, "]", bracket + 1))
        Open(open) == Bracket(open, SkipSpaces(text, open + 1))
    IN  Open(SkipSpaces(text, i + Len(KwContains)))

\* the tail \.(\w+)\s*\) matched at the position of the dot
PropertyTail(text, dot) ==
    LET Groups(word, paren) ==
            [matched |-> /\ IsAt(text, dot, ".")
                         /\ word > dot + 1
                         /\ IsAt(text, paren, ")"),
             property_name |-> Slice(text, dot + 1, word),
             end |-> paren + 1]
        Word(word) == Groups(word, SkipSpaces(text, word))
    IN  Word(WordEnd(text, dot + 1))

\* both groups of a match whose head and tail are given
HeadAndTail(head, tail, named) ==
    IF head.matched /\ named /\ tail.matched
    THEN [matched |-> TRUE, end |-> tail.end,
          array_content |-> head.array_content,
          property_name |-> tail.property_name]
    ELSE NoMatch

\* pattern 1 at position i: after the comma, [^.]+ runs to the first dot
MatchPattern1(text, i) ==
    LET Dot(head, dot) == HeadAndTail(head, PropertyTail(text, dot), dot > head.after)
        Matched(head) == Dot(head, FirstAt(text, ".", head.after))
    IN  Matched(ContainsHead(text, i))

\* pattern 2 at position i: after the comma and blanks, (\w+) then the dot
MatchPattern2(text, i) ==
    LET Dot(head, start, dot) ==
            HeadAndTail(head, PropertyTail(text, dot), dot > start)
        Start(head, start) == Dot(head, start, WordEnd(text, start))
        Matched(head) == Start(head, SkipSpaces(text, head.after))
    IN  Matched(ContainsHead(text, i))

MatchPattern(pattern, text, i) ==
    IF pattern = 1 THEN MatchPattern1(text, i) ELSE MatchPattern2(text, i)

\* re.findall(pattern, condition) from position i on, as
\* (array_content, property_name) pairs
RECURSIVE FindAllContains(_, _, _)
FindAllContains(pattern, text, i) ==
    IF i >= Len(text) THEN << >>
    ELSE LET Found(m) ==
                 <<[array_content |-> m.array_content,
                    property_name |-> m.property_name]>>
                 \o FindAllContains(pattern, text, m.end)
             From(starts) ==
                 IF starts = {} THEN << >>
                 ELSE Found(MatchPattern(pattern, text, Least(starts)))
         IN  From({ j \in i..(Len(text) - 1) : MatchPattern(pattern, text, j).matched })

\* re.findall(r'"([^"]+)"', array_content) from position i on
RECURSIVE FindAllQuoted(_, _)
FindAllQuoted(text, i) ==
    LET Pair(open, close) ==
            IF open >= Len(text) \/ close >= Len(text) THEN << >>
            ELSE IF close = open + 1 THEN FindAllQuoted(text, open + 1)
            ELSE <<Slice(text, open + 1, close)>> \o FindAllQuoted(text, close + 1)
        Open(open) == Pair(open, FirstAt(text, "\"", open + 1))
    IN  Open(FirstAt(text, "\"", i))

\* text.split(',')
RECURSIVE SplitComma(_)
SplitComma(text) ==
    LET comma == FirstAt(text, ",", 0)
    IN  IF comma >= Len(text) THEN <<text>>
        ELSE <<Slice(text, 0, comma)>> \o SplitComma(SliceFrom(text, comma + 1))

RECURSIVE KeepUnquoted(_)
\* the stripped, non-empty values that do not start with "$"
KeepUnquoted(values) ==
    IF values = << >> THEN << >>
    ELSE LET v == Strip(Head(values))
         IN  (IF v # << >> /\ v[1] # "$" THEN <<v>> ELSE << >>)
             \o KeepUnquoted(Tail(values))

EnumValues(array_content) ==
    LET Values(quoted) ==
            IF quoted # << >> THEN quoted
            ELSE KeepUnquoted(SplitComma(array_content))
    IN  Values(FindAllQuoted(array_content, 0))

RECURSIVE apply_enum_recursively(_, _, _)
RECURSIVE ApplyEnumNested(_, _, _, _, _)

\* returns the schema as mutated and the `applied` flag
apply_enum_recursively(obj, prop_name, values) ==
    IF TypeOf(obj) = "array" /\ HasKey(obj, "items")
    THEN LET inner == apply_enum_recursively(obj.items, prop_name, values)
         IN  [schema |-> [obj EXCEPT !.items = inner.schema],
              applied |-> inner.applied]
    ELSE IF HasKey(obj, "properties")
    THEN LET direct == HasProp(obj.properties, prop_name)
             properties ==
                 IF direct
                 THEN SetProp(obj.properties, prop_name,
                              SetKey(PropSchema(obj.properties, prop_name),
                                     "enum", values))
                 ELSE obj.properties
             nested == ApplyEnumNested(properties, 1, prop_name, values, direct)
         IN  [schema |-> [obj EXCEPT !.properties = nested.properties],
              applied |-> nested.applied]
    ELSE [schema |-> obj, applied |-> FALSE]

\* the loop over properties.items() from index i on
ApplyEnumNested(properties, i, prop_name, values, applied) ==
    IF i > Len(properties)
    THEN [properties |-> properties, applied |-> applied]
    ELSE LET prop_schema == properties[i].schema
         IN  IF TypeOf(prop_schema) = "array" /\ HasKey(prop_schema, "items")
             THEN LET inner == apply_enum_recursively(prop_schema.items,
                                                      prop_name, values)
                  IN  ApplyEnumNested(
                          [properties EXCEPT ![i].schema =
                              [prop_schema EXCEPT !.items = inner.schema]],
                          i + 1, prop_name, values, applied \/ inner.applied)
             ELSE IF TypeOf(prop_schema) = "object"
             THEN LET inner == apply_enum_recursively(prop_schema, prop_name,
                                                      values)
                  IN  ApplyEnumNested(
                          [properties EXCEPT ![i].schema = inner.schema],
                          i + 1, prop_name, values, applied \/ inner.applied)
             ELSE ApplyEnumNested(properties, i + 1, prop_name, values, applied)

\* _apply_enum_to_schema_property that puts the enum on the schema itself
\* when no property took it
_apply_enum_to_schema_property_OrRoot(schema, property_name, enum_values) ==
    LET Applied(r) ==
            IF r.applied THEN r
            ELSE [schema |-> SetKey(schema, "enum", enum_values), applied |-> TRUE]
    IN  Applied(apply_enum_recursively(schema, property_name, enum_values))

\* _apply_enum_to_schema_property that also marks the property id
_apply_enum_to_schema_property_AlsoId(schema, property_name, enum_values) ==
    LET first == apply_enum_recursively(schema, property_name, enum_values)
    IN  apply_enum_recursively(first.schema, KwId, enum_values)

_apply_enum_to_schema_property(schema, property_name, enum_values) ==
    apply_enum_recursively(schema, property_name, enum_values)

RECURSIVE ApplyMatches(_, _, _)
\* the loop over all_matches from index i on
ApplyMatches(schema, all_matches, i) ==
    IF i > Len(all_matches) THEN schema
    ELSE LET Apply(enum_values) ==
                 ApplyMatches(
                     IF enum_values # << >>
                     THEN _apply_enum_to_schema_property(
                              schema, all_matches[i].property_name, enum_values).schema
                     ELSE schema,
                     all_matches, i + 1)
         IN  Apply(EnumValues(all_matches[i].array_content))

_extract_and_apply_enums(schema, condition) ==
    ApplyMatches(schema,
                 FindAllContains(1, condition, 0) \o FindAllContains(2, condition, 0),
                 1)

RECURSIVE _add_validation_constraints(_, _)
\* validations is the list still to be processed
_add_validation_constraints(schema, validations) ==
    IF validations = << >> THEN schema
    ELSE LET validation == Head(validations)
             condition == IF InDict(validation, KeyCondition)
                          THEN Lookup(validation, KeyCondition).text
                          ELSE << >>
         IN  _add_validation_constraints(
                 _extract_and_apply_enums(schema, _clean_expression_loop(condition)),
                 Tail(validations))

(***************************************************************************)
(* GenericJSONSchemaGenerator                                              *)
(*                                                                         *)
(* `self` is the generator instance; every method returns it as the call   *)
(* leaves it, with the exception that ended the call in `raised`.          *)
(***************************************************************************)
NewGenerator(add_uuid_selectively) ==
    [add_uuid_selectively |-> add_uuid_selectively, uuid_added_paths |-> {},
     type_parser |-> NewParser, current_nesting_level |-> 0]

RECURSIVE JoinPath(_)
\* ".".join(path)
JoinPath(path) ==
    IF path = << >> THEN << >>
    ELSE IF Len(path) = 1 THEN path[1]
    ELSE path[1] \o <<".">> \o JoinPath(Tail(path))

_convert_string_to_schema(raw) ==
    LET value == Strip(raw)
    IN  IF Lower(value) \in {KwTrue, KwFalse} THEN [type |-> "boolean"]
        ELSE IF Find(value, ".") # -1 /\ IsFloatLiteral(value)
        THEN [type |-> "number"]
        ELSE IF Find(value, ".") = -1 /\ IsIntLiteral(value)
        THEN [type |-> "integer"]
        ELSE IF StartsWith(value, <<"[">>) /\ EndsWith(value, <<"]">>)
        THEN [type |-> "array", items |-> EmptyDict]
        ELSE IF StartsWith(value, <<"{">>) /\ EndsWith(value, <<"}">>)
        THEN [type |-> "object", additionalProperties |-> PyTrue]
        ELSE [type |-> "string"]

_should_add_uuid(path) ==
    IF Len(path) > 0
    THEN IF path[Len(path)] = KeyItem THEN Len(path) = 2
         ELSE IF Len(path) >= 2 /\ path[Len(path) - 1] = KeyItems
         THEN Len(path) = 3
         ELSE FALSE
    ELSE FALSE

_add_id_field(schema) ==
    IF HasKey(schema, "properties") /\ ~HasProp(schema.properties, KwId)
    THEN [schema EXCEPT !.properties = SetProp(@, KwId, IdSchema)]
    ELSE schema

RECURSIVE _convert_to_schema(_, _, _)
RECURSIVE _convert_type_definition(_, _, _)
RECURSIVE ConvertItems(_, _, _, _, _)

_convert_type_definition(type_def, path, self) ==
    IF type_def.kind = "str"
    THEN LET Parsed(parsed) ==
                 [schema |-> parsed.schema,
                  self |-> [self EXCEPT !.type_parser = parsed.self],
                  raised |-> parsed.raised]
         IN  Parsed(parse_type_expression(
                        type_def.text,
                        [self.type_parser EXCEPT !.current_depth = Len(path)]))
    ELSE IF type_def.kind \in {"dict", "list"}
    THEN _convert_to_schema(type_def, path, self)
    ELSE Return([type |-> "string"], self)

\* the loop over value.items() of the generic object branch, from index i
ConvertItems(items, i, path, schema, self) ==
    IF i > Len(items) THEN Return(schema, self)
    ELSE LET Converted(prop) ==
                 IF prop.raised # "" THEN prop
                 ELSE ConvertItems(items, i + 1, path,
                          [schema EXCEPT
                              !.properties = SetProp(@, items[i].key, prop.schema),
                              !.required = Append(@, items[i].key)],
                          prop.self)
         IN  Converted(_convert_to_schema(items[i].value,
                                          Append(path, items[i].key), self))

_convert_to_schema(value, path, self) ==
    IF value.kind = "dict"
    THEN IF InDict(value, KeyType)
         THEN LET Required(typed, required_list) ==
                      IF required_list # << >>
                      THEN Return(SetKey(typed.schema, "required", required_list),
                                  typed.self)
                      ELSE typed
                  Typed(typed) ==
                      IF typed.raised # "" THEN typed
                      ELSE IF /\ HasKey(typed.schema, "properties")
                              /\ ~HasKey(typed.schema, "required")
                      THEN Required(typed,
                                    OuterRequired(typed.schema.properties,
                                                  typed.self.type_parser.optional_fields))
                      ELSE typed
              IN  Typed(_convert_type_definition(Lookup(value, KeyType), path, self))
         ELSE LET Filled(filled) ==
                      IF filled.raised # "" THEN filled
                      ELSE IF filled.self.add_uuid_selectively /\ _should_add_uuid(path)
                      THEN Return(_add_id_field(filled.schema),
                                  [filled.self EXCEPT
                                      !.uuid_added_paths = @ \cup {JoinPath(path)}])
                      ELSE filled
              IN  Filled(ConvertItems(value.items, 1, path,
                                      [type |-> "object", additionalProperties |-> PyTrue,
                                       properties |-> << >>, required |-> << >>],
                                      self))
    ELSE IF value.kind = "list"
    THEN IF Len(value.elems) > 0
         THEN LET Element(item) ==
                      IF item.raised # "" THEN item
                      ELSE Return([type |-> "array",
                                   items |-> IF item.self.add_uuid_selectively
                                             THEN _add_id_field(item.schema)
                                             ELSE item.schema],
                                  item.self)
              IN  Element(_convert_to_schema(value.elems[1], Append(path, KeyItem), self))
         ELSE Return([type |-> "array", items |-> EmptyDict], self)
    ELSE IF value.kind = "str"
    THEN Return(_convert_string_to_schema(value.text), self)
    ELSE IF value.kind \in {"int", "float", "bool"}
    THEN Return([type |-> "number"], self)
    ELSE IF value.kind = "None" THEN Return(EmptyDict, self)
    ELSE Return([type |-> "string"], self)

\* the description, the default and the validation blocks of one variable,
\* put on its schema
Annotated(var_def, prop_schema) ==
    LET Described(schema) ==
            IF InDict(var_def, KeyDescription)
            THEN SetKey(schema, "description", Lookup(var_def, KeyDescription))
            ELSE schema
        Defaulted(schema) ==
            IF InDict(var_def, KeyDefault)
            THEN SetKey(schema, "default", Lookup(var_def, KeyDefault))
            ELSE schema
        Validated(schema) ==
            IF InDict(var_def, KeyValidation)
            THEN _add_validation_constraints(schema,
                                             Lookup(var_def, KeyValidation).elems)
            ELSE schema
    IN  Validated(Defaulted(Described(prop_schema)))

RECURSIVE GenerateLoop(_, _, _, _)
\* the loop over variables.items() from index i on
GenerateLoop(variables, i, schema, self) ==
    IF i > Len(variables) THEN Return(schema, self)
    ELSE LET Converted(var_name, converted) ==
                 IF converted.raised # "" THEN converted
                 ELSE GenerateLoop(variables, i + 1,
                          [schema EXCEPT
                              !.properties =
                                  SetProp(@, var_name,
                                          Annotated(variables[i].value,
                                                    converted.schema))],
                          converted.self)
         IN  Converted(variables[i].key,
                       _convert_to_schema(variables[i].value, <<variables[i].key>>,
                                          self))

\* generate_schema that lists every variable as required
generate_schema_RequireAll(variables, self) ==
    LET Listed(r) ==
            IF r.raised # "" THEN r
            ELSE [r EXCEPT !.schema.required =
                              [i \in 1..Len(variables) |-> variables[i].key]]
    IN  Listed(GenerateLoop(variables, 1,
                   SetKey([type |-> "object", additionalProperties |-> PyTrue,
                           properties |-> << >>, required |-> << >>],
                          "$schema", "http://json-schema.org/draft-07/schema#"),
                   self))

\* variables is the ordered dict of variable definitions, as its items
generate_schema(variables, self) ==
    GenerateLoop(variables, 1,
                 SetKey([type |-> "object", additionalProperties |-> PyTrue,
                         properties |-> << >>, required |-> << >>],
                        "$schema", "http://json-schema.org/draft-07/schema#"),
                 self)

(***************************************************************************)
(* Declarations fed to the parser                                          *)
(*                                                                         *)
(* A declaration is a chain of type constructors around the leaf `string`, *)
(* outermost first.  `style` fixes the fields every object of the chain    *)
(* declares, `sep` the assignment dialect, and `cut` removes that many     *)
(* characters from the end of the text.                                    *)
(***************************************************************************)
MaxNest == 4
MaxCut == 3
MaxCutNest == 2

Kinds == {"list", "set", "map", "object", "optional"}

Styles == {"id", "optPlain", "plainOpt", "default"}

Seps == {<<":", " ">>, <<" ", "=", " ">>}

FieldA == <<"a">>
FieldB == <<"b">>
DefaultX == <<"x">>

Quoted(text) == <<"\"">> \o text \o <<"\"">>

Call(keyword, argument) == keyword \o <<"(">> \o argument \o <<")">>

\* the field that holds the next constructor of the chain
ChildName(style) == IF style = "id" THEN KwId ELSE FieldB

\* whether the sibling field `a` of the level-th object (1 = outermost) is
\* declared with an optional(...) wrapper
SiblingOptional(style, level) ==
    CASE style = "optPlain" -> level % 2 = 1
      [] style = "plainOpt" -> level % 2 = 0
      [] style = "default" -> TRUE
      [] OTHER -> FALSE

HasSibling(style) == style # "id"

SiblingType(style, level) ==
    IF ~SiblingOptional(style, level) THEN KwString
    ELSE IF style = "default"
    THEN Call(KwOptional, KwString \o <<",", " ">> \o Quoted(DefaultX))
    ELSE Call(KwOptional, KwString)

RECURSIVE Render(_, _, _, _)
\* the source text of the chain; level counts the objects entered so far
Render(chain, style, sep, level) ==
    IF chain = << >> THEN KwString
    ELSE LET k == Head(chain)
             child == Render(Tail(chain), style, sep,
                             IF k = "object" THEN level + 1 ELSE level)
         IN  CASE k = "list" -> Call(KwList, child)
               [] k = "set" -> Call(KwSet, child)
               [] k = "map" -> Call(KwMap, child)
               [] k = "optional" ->
                    IF style = "default"
                    THEN Call(KwOptional, child \o <<",", " ">> \o Quoted(DefaultX))
                    ELSE Call(KwOptional, child)
               [] k = "object" ->
                    Call(KwObject,
                         <<"{">>
                         \o (IF HasSibling(style)
                             THEN FieldA \o sep \o SiblingType(style, level + 1)
                                  \o <<",", " ">>
                             ELSE << >>)
                         \o ChildName(style) \o sep \o child
                         \o <<"}">>)

\* all chains of at most n constructors
RECURSIVE Chains(_)
Chains(n) ==
    IF n = 0 THEN {<< >>}
    ELSE LET shorter == Chains(n - 1)
         IN  shorter \cup { <<k>> \o c : k \in Kinds,
                            c \in { d \in shorter : Len(d) = n - 1 } }

HasObject(chain) == \E i \in 1..Len(chain) : chain[i] = "object"

\* texts that are not produced from a chain: primitives, unknown words and
\* degenerate forms
SpecialTexts ==
    { KwString, KwNumber, KwBool, KwAny, << >>, <<"f","o","o">>, KwBoolean,
      <<" ">> \o KwString \o <<" ">>,
      Call(KwOptional, << >>), Call(KwOptional, <<" ">>),
      Call(KwList, << >>), Call(KwSet, << >>), Call(KwMap, << >>),
      Call(KwObject, << >>), Call(KwObject, <<"{", "}">>),
      Call(KwOptional, <<",">> \o Quoted(DefaultX)),
      Call(KwList, Call(KwOptional, << >>)),
      Call(KwObject, <<"{">> \o FieldA \o <<":", " ">> \o Call(KwOptional, << >>) \o <<"}">>),
      Call(<<"t","u","p","l","e">>, <<"[">> \o KwString \o <<"]">>),
      InterpOpen \o Call(KwList, KwString) \o <<"}">>,
      InterpOpen \o <<"}">> }

Declaration(chain, style, sep, cut) ==
    [chain |-> chain, style |-> style, sep |-> sep, cut |-> cut, special |-> << >>]

Special(text) ==
    [chain |-> << >>, style |-> "special", sep |-> << >>, cut |-> 0, special |-> text]

\* the declarations the parser is run on
Declarations ==
    LET chains == Chains(MaxNest)
        plain == { c \in chains : ~HasObject(c) }
        objects == { c \in chains : HasObject(c) }
        short == { c \in chains : Len(c) <= MaxCutNest }
    IN  { Declaration(c, "none", << >>, 0) : c \in plain }
        \cup { Declaration(c, st, sp, 0) : c \in objects, st \in Styles, sp \in Seps }
        \cup { Declaration(c, st, <<":", " ">>, n) :
                 c \in short \ {<< >>}, st \in {"optPlain", "default"}, n \in 1..MaxCut }
        \cup { Special(t) : t \in SpecialTexts }

\* the type expression text of a declaration
TypeText(d) ==
    IF d.style = "special" THEN d.special
    ELSE LET full == Render(d.chain, d.style, d.sep, 0)
         IN  SubSeq(full, 1, Len(full) - d.cut)

(***************************************************************************)
(* Texts fed to _split_by_top_level_comma                                  *)
(***************************************************************************)
MaxLen == 4

SplitAlphabet ==
    {"a", ",", "(", ")", "{", "}", "[", "]", "\"", "'", " ", "\\"}

RECURSIVE TextsOver(_, _)
\* all texts over the alphabet of at most n characters
TextsOver(alphabet, n) ==
    IF n = 0 THEN {<< >>}
    ELSE LET shorter == TextsOver(alphabet, n - 1)
         IN  shorter \cup { Append(t, c) : t \in { u \in shorter : Len(u) = n - 1 },
                            c \in alphabet }

SplitExamples ==
    { <<"a","(","b",",","c",")",",","d">>,
      <<"\"","a",",","b","\"",",","c">>,
      <<"{","a",",","[","b",",","c","]","}",",","d",",">>,
      <<"'","a","\"",",","b","'",",","c">>,
      <<"\"","a","\\","\"",",","b","\"",",","c">>,
      <<"a",","," ",",","b",","," ">> }

SplitTexts == TextsOver(SplitAlphabet, MaxLen) \cup SplitExamples

(***************************************************************************)
(* Variable definitions fed to the generator, and validation conditions    *)
(***************************************************************************)
MaxVars == 2
MaxValidations == 2

FieldRegion == <<"r","e","g","i","o","n">>
FieldName == <<"n","a","m","e">>
FieldSub == <<"s","u","b">>
KeyErrorMessage == <<"e","r","r","o","r","_","m","e","s","s","a","g","e">>

\* name: type
Field(name, type) == name \o <<":", " ">> \o type

RECURSIVE JoinFields(_)
JoinFields(fields) ==
    IF fields = << >> THEN << >>
    ELSE IF Len(fields) = 1 THEN fields[1]
    ELSE fields[1] \o <<",", " ">> \o JoinFields(Tail(fields))

\* object({f1, f2, ...})
ObjectOf(fields) == Call(KwObject, <<"{">> \o JoinFields(fields) \o <<"}">>)

ListOfRegion == Call(KwList, ObjectOf(<<Field(FieldRegion, KwString),
                                        Field(FieldName, KwString)>>))

\* type expressions whose compilation returns
EnumTypeTexts ==
    { KwString,
      ListOfRegion,
      Call(KwList, ObjectOf(<<Field(FieldName,
                                    Call(KwOptional, KwString \o <<",", " ">>
                                                     \o Quoted(DefaultX))),
                              Field(FieldRegion, KwString)>>)),
      Call(KwList, ObjectOf(<<Field(FieldRegion, KwString),
                              Field(FieldSub,
                                    Call(KwList, ObjectOf(<<Field(FieldRegion, KwNumber),
                                                            Field(FieldName, KwString)>>)))>>)),
      Call(KwList, ObjectOf(<<Field(KwId, KwString), Field(FieldRegion, KwString)>>)),
      Call(KwList, ObjectOf(<<Field(FieldName, KwString)>>)),
      Call(KwList, ObjectOf(<<Field(FieldName, KwString),
                              Field(FieldSub, ObjectOf(<<Field(FieldRegion, KwString)>>))>>)),
      Call(KwList, KwString),
      Call(KwSet, ObjectOf(<<Field(FieldRegion, KwString)>>)),
      Call(KwMap, ObjectOf(<<Field(FieldRegion, KwString)>>)),
      ObjectOf(<<Field(FieldRegion, KwString),
                 Field(FieldName, Call(KwOptional, KwString))>>),
      ObjectOf(<<Field(KwId, KwString)>>) }

\* the type expressions given to variables: the above and one that raises
TypeTexts == EnumTypeTexts \cup {Call(KwOptional, << >>)}

ValuesXY == <<"[">> \o Quoted(<<"x">>) \o <<",">> \o Quoted(<<"y">>) \o <<"]">>

\* contains(values, subject)
Contains(values, subject) == Call(KwContains, values \o <<",", " ">> \o subject)

Dotted(owner, name) == owner \o <<".">> \o name

\* contains(["x","y"], item.region)
ContainsItemRegion == Contains(ValuesXY, Dotted(KeyItem, FieldRegion))

Conditions ==
    { ContainsItemRegion,
      InterpOpen \o ContainsItemRegion \o <<"}">>,
      Call(<<"a","l","l","t","r","u","e">>,
           <<"[","f","o","r"," ","i","t","e","m"," ","i","n"," ","v","a","r",".","v"," ",":"," ">>
           \o ContainsItemRegion \o <<"]">>),
      Contains(ValuesXY, Dotted(<<"v","a","r">>, FieldRegion)),
      Contains(ValuesXY, Dotted(<<"e","a","c","h",".","v","a","l","u","e">>, FieldRegion)),
      Contains(<<"[">> \o Quoted(<<"z">>) \o <<"]">>, Dotted(KeyItem, FieldName)),
      Contains(<<"[", "x", ",", " ", "y", "]">>, Dotted(KeyItem, FieldRegion)),
      <<"l","e","n","g","t","h","(","v","a","r",".","v",")"," ",">"," ","0">> }

\* one validation block
Validation(condition) ==
    PyDict(<<Item(KeyCondition, PyStr(condition)),
             Item(KeyErrorMessage, PyStr(<<"e">>))>>)

RECURSIVE SeqsOver(_, _)
\* all sequences over the set of at most n elements
SeqsOver(set, n) ==
    IF n = 0 THEN {<< >>}
    ELSE LET shorter == SeqsOver(set, n - 1)
         IN  shorter \cup { Append(q, e) : q \in { u \in shorter : Len(u) = n - 1 },
                            e \in set }

\* the validation lists applied to a compiled schema: blocks with a
\* condition, and one block without
ValidationLists ==
    SeqsOver({ Validation(c) : c \in Conditions }, MaxValidations)
    \cup {<<PyDict(<<Item(KeyErrorMessage, PyStr(<<"e">>))>>)>>}

\* the i-th variable name: v, vv, vvv, ...
VarName(i) == [k \in 1..i |-> "v"]

\* values of the `type` key that are not text
StructuredTypes ==
    { PyDict(<<Item(FieldName, PyStr(KwString))>>),
      PyDict(<<Item(KwId, PyStr(KwString)), Item(FieldRegion, PyStr(KwString))>>),
      PyList(<<PyDict(<<Item(FieldRegion, PyStr(KwString))>>)>>),
      PyList(<< >>),
      PyDict(<<Item(KeyItems, PyList(<<PyDict(<<Item(FieldName, PyStr(KwNumber))>>)>>))>>),
      PyInt(1) }

Absent == << >>

\* the items a key contributes to a variable definition
Entry(key, choice) == IF choice = Absent THEN << >> ELSE <<Item(key, choice[1])>>

VarDef(type, description, default, validation) ==
    PyDict(Entry(KeyType, type) \o Entry(KeyDescription, description)
           \o Entry(KeyDefault, default) \o Entry(KeyValidation, validation))

VarDefs ==
    { VarDef(t, d, f, v) :
        t \in {Absent} \cup { <<PyStr(x)>> : x \in TypeTexts }
                       \cup { <<x>> : x \in StructuredTypes },
        d \in {Absent, <<PyStr(<<"d">>)>>},
        f \in {Absent, <<PyStr(DefaultX)>>, <<PyList(<< >>)>>},
        v \in {Absent, <<PyList(<<Validation(ContainsItemRegion)>>)>>,
               <<PyList(<< >>)>>} }
    \cup { PyDict(<<Item(KwId, PyStr(KwString))>>),
           PyDict(<<Item(FieldName, PyDict(<<Item(KwId, PyInt(1))>>))>>) }

\* the definitions of the variables after the first
MoreVarDefs ==
    { VarDef(<<PyStr(KwString)>>, Absent, <<PyStr(DefaultX)>>, Absent),
      VarDef(<<PyStr(ListOfRegion)>>, Absent, Absent,
             <<PyList(<<Validation(ContainsItemRegion)>>)>>),
      VarDef(Absent, <<PyStr(<<"d">>)>>, Absent, Absent) }

RECURSIVE Named(_, _)
\* the definitions as the items of the variables dict, named from VarName(i)
Named(defs, i) ==
    IF defs = << >> THEN << >>
    ELSE <<Item(VarName(i), Head(defs))>> \o Named(Tail(defs), i + 1)

\* the parsed variables of a file
VariableSets ==
    {<< >>}
    \cup { Named(<<first>> \o rest, 1) :
             first \in VarDefs, rest \in SeqsOver(MoreVarDefs, MaxVars - 1) }

(***************************************************************************)
(* Default literals: object({a: optional(T, d)}) for a literal text d      *)
(***************************************************************************)
\* a literal text, the type it is a default of and the value it denotes
Lit(type, text, value) ==
    [type |-> type, text |-> text, decodable |-> TRUE, value |-> value]

\* a text that denotes no literal
Undecodable(type, text) ==
    [type |-> type, text |-> text, decodable |-> FALSE, value |-> PyNone]

LiteralCases ==
    { Lit(KwString, Quoted(DefaultX), PyStr(DefaultX)),
      Lit(KwString, <<"'", "x", "'">>, PyStr(DefaultX)),
      Lit(KwNumber, <<"1">>, PyInt(1)),
      Lit(KwNumber, <<"-", "2">>, PyInt(0 - 2)),
      Lit(KwNumber, <<"1", ".", "5">>, PyFloat(15, <<"5">>)),
      Lit(KwBool, KwTrue, PyBool(TRUE)),
      Lit(KwBool, KwFalse, PyBool(FALSE)),
      Lit(KwString, KwNull, PyNone),
      Lit(Call(KwList, KwString), <<"[", "]">>, PyEmptyList),
      Lit(Call(KwMap, KwString), <<"{", "}">>, PyEmptyDict),
      Lit(Call(KwList, KwString), <<"[">> \o Quoted(DefaultX) \o <<"]">>,
          PyList(<<PyStr(DefaultX)>>)),
      Lit(Call(KwList, KwString), ValuesXY,
          PyList(<<PyStr(<<"x">>), PyStr(<<"y">>)>>)),
      Lit(Call(KwList, Call(KwList, KwNumber)),
          <<"[", "[", "1", "]", ",", " ", "[", "2", "]", "]">>,
          PyList(<<PyList(<<PyInt(1)>>), PyList(<<PyInt(2)>>)>>)),
      Lit(Call(KwMap, KwNumber), <<"{", "a", " ", "=", " ", "1", "}">>,
          PyDict(<<Item(FieldA, PyInt(1))>>)),
      Undecodable(KwString, <<"f", "o", "o">>),
      Undecodable(KwNumber, <<"1", ".", "2", ".", "3">>) }

LiteralCase(text) == CHOOSE c \in LiteralCases : c.text = text

\* object({a: optional(T, d)})
LiteralText(c) ==
    ObjectOf(<<Field(FieldA, Call(KwOptional, c.type \o <<",", " ">> \o c.text))>>)

Literal(text) ==
    [chain |-> << >>, style |-> "literal", sep |-> <<":", " ">>, cut |-> 0,
     special |-> text]

(***************************************************************************)
(* Type expressions with whitespace put between their tokens               *)
(***************************************************************************)
Whitespace == {" ", "\n"}

\* expressions written without optional whitespace
CompactTexts ==
    { Call(KwList, KwNumber),
      Call(KwSet, KwNumber),
      Call(KwMap, KwNumber),
      Call(KwOptional, KwNumber),
      Call(KwList, Call(KwObject, <<"{">> \o FieldA \o <<":">> \o KwNumber \o <<"}">>)),
      Call(KwObject, <<"{">> \o FieldA \o <<":">> \o KwNumber \o <<",">>
                     \o FieldB \o <<":">> \o Call(KwMap, KwBool) \o <<"}">>) }

\* the places between two tokens of the text, its two ends included
TokenGaps(text) ==
    { i \in 0..Len(text) :
        i = 0 \/ i = Len(text) \/ ~IsWord(text[i]) \/ ~IsWord(text[i + 1]) }

InsertAt(text, i, c) == SubSeq(text, 1, i) \o <<c>> \o SubSeq(text, i + 1, Len(text))

\* each compact text with one whitespace character put into one gap
SpacedCases ==
    UNION { { [compact |-> t, text |-> InsertAt(t, i, w)] :
                i \in TokenGaps(t), w \in Whitespace } : t \in CompactTexts }

Spaced(text) ==
    [chain |-> << >>, style |-> "spaced", sep |-> << >>, cut |-> 0, special |-> text]

\* the declarations the parser is run on, with their texts
AllDeclarations ==
    Declarations \cup { Literal(c.text) : c \in LiteralCases }
                 \cup { Spaced(c.text) : c \in SpacedCases }

DeclText(d) ==
    IF d.style = "literal" THEN LiteralText(LiteralCase(d.special))
    ELSE IF d.style = "spaced" THEN d.special
    ELSE TypeText(d)

(***************************************************************************)
(* Object bodies fed to _parse_object_content: {a: T1, b: T2}              *)
(***************************************************************************)
FieldC == <<"c">>
FieldP == <<"p">>

\* the declared types of the fields: plain, wrapped in optional(...), and
\* with an optional(...) further inside
FieldTypes ==
    { KwString,
      Call(KwOptional, KwString),
      Call(KwOptional, KwString \o <<",", " ">> \o Quoted(DefaultX)),
      Call(KwOptional, Call(KwList, KwString)),
      Call(KwList, KwString),
      Call(KwList, Call(KwOptional, KwString)),
      Call(KwSet, Call(KwOptional, KwString)),
      Call(KwMap, Call(KwOptional, KwString)),
      ObjectOf(<<Field(FieldC, Call(KwOptional, KwString))>>),
      Call(KwList, ObjectOf(<<Field(FieldC, KwString)>>)),
      Call(KwList, ObjectOf(<<Field(FieldC, Call(KwOptional, KwString))>>)) }

\* {a: T1, b: T2}
BodyText(types) ==
    <<"{">> \o JoinFields(<<Field(FieldA, types[1]), Field(FieldB, types[2])>>) \o <<"}">>

Fields(types) ==
    [chain |-> types, style |-> "fields", sep |-> <<":", " ">>, cut |-> 0,
     special |-> << >>]

\* the parser as _parse_expression hands it over: for a top-level object, for
\* the element object of a top-level list, and for the object of a field p
\* declared optional(object(...))
ScopeParsers ==
    { NewParser,
      [NewParser EXCEPT !.current_depth = 1],
      [NewParser EXCEPT !.optional_fields = {FieldP}] }

(***************************************************************************)
(* Conditions with several contains tests                                  *)
(***************************************************************************)
\* one test contains(["value"], path.name)
Test(value, path, name) == [value |-> value, path |-> path, name |-> name]

TestText(t) == Contains(<<"[">> \o Quoted(t.value) \o <<"]">>, Dotted(t.path, t.name))

RECURSIVE ConditionOf(_)
\* the tests joined by &&
ConditionOf(tests) ==
    IF Len(tests) = 1 THEN TestText(tests[1])
    ELSE TestText(tests[1]) \o <<" ", "&", "&", " ">> \o ConditionOf(Tail(tests))

IndexedItem == KeyItem \o <<"[", "0", "]">>

\* the tests of one condition: one property, two properties, and the same
\* property twice with different lists
MultiCases ==
    { <<Test(<<"x">>, KeyItem, FieldRegion)>>,
      <<Test(<<"y">>, KeyItem, FieldRegion)>>,
      <<Test(<<"z">>, KeyItem, FieldName)>>,
      <<Test(<<"x">>, KeyItem, FieldRegion), Test(<<"z">>, KeyItem, FieldName)>>,
      <<Test(<<"x">>, KeyItem, FieldRegion), Test(<<"y">>, KeyItem, FieldRegion)>>,
      <<Test(<<"x">>, KeyItem, FieldRegion), Test(<<"y">>, IndexedItem, FieldRegion)>> }

MultiValidationLists ==
    SeqsOver({ Validation(ConditionOf(c)) : c \in MultiCases }, MaxValidations) \ {<< >>}

\* types with the property region at several depths, below items and below
\* properties
MultiTypeTexts ==
    { ListOfRegion,
      Call(KwList, ObjectOf(<<Field(FieldRegion, KwString),
                              Field(FieldSub,
                                    Call(KwList, ObjectOf(<<Field(FieldRegion, KwNumber),
                                                            Field(FieldName, KwString)>>)))>>)),
      ObjectOf(<<Field(FieldName, KwString),
                 Field(FieldSub, ObjectOf(<<Field(FieldRegion, KwString)>>))>>) }

(***************************************************************************)
(* Calls made one after the other on the same instances                    *)
(***************************************************************************)
MaxCalls == 2

\* type expressions compiled in sequence: some whose compilation returns and
\* three that raise part way, leaving the parser as it then is
SessionTexts ==
    { KwString,
      ListOfRegion,
      Call(KwList, ObjectOf(<<Field(FieldName,
                                    Call(KwOptional, KwString \o <<",", " ">>
                                                     \o Quoted(DefaultX))),
                              Field(FieldSub, ListOfRegion)>>)),
      ObjectOf(<<Field(FieldRegion, KwString),
                 Field(FieldName, Call(KwOptional, KwString))>>),
      ObjectOf(<<Field(KwId, KwString)>>),
      Call(KwOptional, << >>),
      Call(KwList, Call(KwOptional, << >>)),
      ObjectOf(<<Field(FieldA, Call(KwOptional, KwString)),
                 Field(FieldB, Call(KwOptional, << >>))>>) }

SessionVarDefs ==
    { VarDef(<<PyStr(ListOfRegion)>>, Absent, Absent,
             <<PyList(<<Validation(ContainsItemRegion)>>)>>),
      VarDef(<<PyStr(ObjectOf(<<Field(FieldRegion, KwString),
                                Field(FieldName, Call(KwOptional, KwString))>>))>>,
             Absent, <<PyStr(DefaultX)>>, Absent),
      VarDef(<<PyList(<<PyDict(<<Item(FieldRegion, PyStr(KwString))>>)>>)>>,
             Absent, Absent, Absent),
      VarDef(<<PyStr(Call(KwList, Call(KwOptional, << >>)))>>, Absent, Absent, Absent) }

\* variable sets of one and of two variables, compiled in sequence
SessionVariableSets ==
    { Named(<<d>>, 1) : d \in SessionVarDefs }
    \cup { Named(pair, 1) :
             pair \in { q \in SessionVarDefs \X SessionVarDefs : q[1] # q[2] } }

SessionCalls(op) ==
    IF op = "parse_type_expression"
    THEN { [op |-> op, arg |-> t] : t \in SessionTexts }
    ELSE { [op |-> op, arg |-> vs] : vs \in SessionVariableSets }

(***************************************************************************)
(* Directories fed to convert_directory                                    *)
(***************************************************************************)
MaxFiles == 3

\* what a discovered variables.tf holds: text the HCL loader rejects, or the
\* variables it parses to; and whether its output file can be written
FileContents ==
    { [parses |-> FALSE, variables |-> << >>, writable |-> TRUE] }
    \cup { [parses |-> TRUE, variables |-> Named(<<d>>, 1), writable |-> TRUE] :
             d \in { VarDef(<<PyStr(ListOfRegion)>>, Absent, Absent,
                             <<PyList(<<Validation(ContainsItemRegion)>>)>>),
                      VarDef(<<PyList(<<PyDict(<<Item(FieldRegion, PyStr(KwString))>>)>>)>>,
                             Absent, Absent, Absent),
                      VarDef(<<PyStr(Call(KwList, Call(KwOptional, << >>)))>>,
                             Absent, Absent, Absent) } }
    \cup { [parses |-> TRUE, variables |-> << >>, writable |-> FALSE] }

\* the files rglob("variables.tf") finds, in discovery order, each with its
\* own path
VarFiles ==
    { [i \in 1..Len(q) |-> [path |-> i, content |-> q[i]]] :
        q \in SeqsOver(FileContents, MaxFiles) }

Directories ==
    { [exists |-> TRUE, var_files |-> fs] : fs \in VarFiles }
    \cup { [exists |-> FALSE, var_files |-> << >>] }

(***************************************************************************)
(* Texts whose parse is followed call by call                              *)
(***************************************************************************)
MaxTermNest == 2
MaxWraps == 2

RECURSIVE Wrapped(_, _)
\* the text inside n interpolation wrappers ${ }
Wrapped(text, n) ==
    IF n = 0 THEN text ELSE InterpOpen \o Wrapped(text, n - 1) \o <<"}">>

\* complete and cut declarations, balanced or not, bare and wrapped; the
\* complete ones write their fields as Terraform does, name = type
TermTexts ==
    { Wrapped(DeclText(d), n) :
        d \in { e \in AllDeclarations :
                   /\ Len(e.chain) <= MaxTermNest
                   /\ e.cut > 0 \/ e.sep # <<":", " ">> },
        n \in 0..MaxWraps }

(***************************************************************************)
(* The program state                                                       *)
(***************************************************************************)
VARIABLES
    parser,     \* the TerraformTypeParser instance used directly
    generator,  \* the GenericJSONSchemaGenerator instance
    decl,       \* what the input was built from
    call,       \* the call under way: [op, arg]
    result,     \* its outcome: pending, returned (value) or raised (error)
    history     \* the calls completed before on the same instances

vars == <<parser, generator, decl, call, result, history>>

Pending == [status |-> "pending", value |-> EmptyDict, error |-> ""]

Returned(value) == [status |-> "returned", value |-> value, error |-> ""]

Raised(error) == [status |-> "raised", value |-> EmptyDict, error |-> error]

Outcome(r) == IF r.raised = "" THEN Returned(r.schema) ELSE Raised(r.raised)

InitParse ==
    /\ parser = NewParser
    /\ generator = NewGenerator(TRUE)
    /\ decl \in AllDeclarations
    /\ call = [op |-> "parse_type_expression", arg |-> DeclText(decl)]
    /\ result = Pending
    /\ history = << >>

ParseTypeExpression ==
    /\ call.op = "parse_type_expression"
    /\ result.status = "pending"
    /\ LET Done(r) == /\ parser' = r.self
                      /\ result' = Outcome(r)
       IN  Done(parse_type_expression(call.arg, parser))
    /\ UNCHANGED <<generator, decl, call, history>>

InitSplit ==
    /\ parser = NewParser
    /\ generator = NewGenerator(TRUE)
    /\ decl \in { Special(t) : t \in SplitTexts }
    /\ call = [op |-> "_split_by_top_level_comma", arg |-> decl.special]
    /\ result = Pending
    /\ history = << >>

SplitByTopLevelComma ==
    /\ call.op = "_split_by_top_level_comma"
    /\ result.status = "pending"
    /\ result' = Returned(_split_by_top_level_comma(call.arg))
    /\ UNCHANGED <<parser, generator, decl, call, history>>

InitGen ==
    /\ parser = NewParser
    /\ generator \in { NewGenerator(flag) : flag \in BOOLEAN }
    /\ decl = Declaration(<< >>, "none", << >>, 0)
    /\ call \in { [op |-> "generate_schema", arg |-> vs] : vs \in VariableSets }
    /\ result = Pending
    /\ history = << >>

GenerateSchema ==
    /\ call.op = "generate_schema"
    /\ result.status = "pending"
    /\ LET Done(r) == /\ generator' = r.self
                      /\ result' = Outcome(r)
       IN  Done(generate_schema(call.arg, generator))
    /\ UNCHANGED <<parser, decl, call, history>>

\* the schema of a variable of the given type as generate_schema has it when
\* it reaches the validation blocks
InitEnum ==
    /\ parser = NewParser
    /\ result = Pending
    /\ history = << >>
    /\ \E t \in EnumTypeTexts, validations \in ValidationLists :
          LET Compiled(converted) ==
                  /\ generator = converted.self
                  /\ decl = Special(t)
                  /\ call = [op |-> "_add_validation_constraints",
                             arg |-> [schema |-> converted.schema,
                                      validations |-> validations]]
          IN  Compiled(_convert_to_schema(PyDict(<<Item(KeyType, PyStr(t))>>),
                                          <<VarName(1)>>, NewGenerator(TRUE)))

AddValidationConstraints ==
    /\ call.op = "_add_validation_constraints"
    /\ result.status = "pending"
    /\ result' = Returned(_add_validation_constraints(call.arg.schema,
                                                      call.arg.validations))
    /\ UNCHANGED <<parser, generator, decl, call, history>>

\* a compiled schema about to receive validation blocks with several tests
InitMulti ==
    /\ parser = NewParser
    /\ result = Pending
    /\ history = << >>
    /\ \E t \in MultiTypeTexts, validations \in MultiValidationLists :
          LET Compiled(converted) ==
                  /\ generator = converted.self
                  /\ decl = Special(t)
                  /\ call = [op |-> "_add_validation_constraints",
                             arg |-> [schema |-> converted.schema,
                                      validations |-> validations]]
          IN  Compiled(_convert_to_schema(PyDict(<<Item(KeyType, PyStr(t))>>),
                                          <<VarName(1)>>, NewGenerator(TRUE)))

\* a parser and a generator about to serve a sequence of calls
InitAgain ==
    /\ parser = NewParser
    /\ generator \in { NewGenerator(flag) : flag \in BOOLEAN }
    /\ decl = Declaration(<< >>, "none", << >>, 0)
    /\ call \in SessionCalls("parse_type_expression") \cup SessionCalls("generate_schema")
    /\ result = Pending
    /\ history = << >>

\* the caller makes the next call of the same kind on the same instances
CallAgain ==
    /\ result.status # "pending"
    /\ Len(history) < MaxCalls - 1
    /\ history' = Append(history, [call |-> call, result |-> result])
    /\ call' \in SessionCalls(call.op)
    /\ result' = Pending
    /\ UNCHANGED <<parser, generator, decl>>

\* the body {a: T1, b: T2} handed to _parse_object_content, and
\* list(object({a: T1, b: T2})) handed to _parse_expression and to
\* parse_type_expression, by a parser in one of the states above
InitScope ==
    /\ parser \in ScopeParsers
    /\ generator = NewGenerator(TRUE)
    /\ decl \in { Fields(<<t1, t2>>) : t1 \in FieldTypes, t2 \in FieldTypes }
    /\ call \in { [op |-> "_parse_object_content", arg |-> BodyText(decl.chain)] }
                \cup { [op |-> op,
                        arg |-> Call(KwList, Call(KwObject, BodyText(decl.chain)))] :
                         op \in {"_parse_expression", "parse_type_expression"} }
    /\ result = Pending
    /\ history = << >>

\* _parse_expression called without a field name
ParseExpression ==
    /\ call.op = "_parse_expression"
    /\ result.status = "pending"
    /\ LET Done(r) == /\ parser' = r.self
                      /\ result' = Outcome(r)
       IN  Done(_parse_expression(call.arg, << >>, parser))
    /\ UNCHANGED <<generator, decl, call, history>>

\* the value holds what the method returns and its local_optional_fields
ParseObjectContent ==
    /\ call.op = "_parse_object_content"
    /\ result.status = "pending"
    /\ LET Done(r) ==
               /\ parser' = r.self
               /\ result' = IF r.raised # "" THEN Raised(r.raised)
                             ELSE Returned([properties |-> r.properties,
                                            required_fields |-> r.required_fields,
                                            local_optional_fields |->
                                                r.local_optional_fields])
       IN  Done(_parse_object_content(call.arg, parser))
    /\ UNCHANGED <<generator, decl, call, history>>

\* the path of the output written for a variables.tf:
\* output_path / relative_path.with_suffix(".json")
OutputFile(var_file) == [json |-> var_file.path]

\* convert_file on one discovered file: the outcome and the generator after
convert_file(var_file, self) ==
    IF ~var_file.content.parses
    THEN [outcome |-> Raised("Exception"), generator |-> self]
    ELSE LET Written(r) ==
                 [outcome |-> IF r.raised # "" THEN Raised(r.raised)
                              ELSE IF ~var_file.content.writable THEN Raised("OSError")
                              ELSE Returned(OutputFile(var_file)),
                  generator |-> r.self]
         IN  Written(generate_schema(var_file.content.variables, self))

InitDir ==
    /\ parser = NewParser
    /\ generator = NewGenerator(TRUE)
    /\ decl = Declaration(<< >>, "none", << >>, 0)
    /\ call \in { [op |-> "convert_directory", arg |-> d] : d \in Directories }
    /\ result = [Pending EXCEPT !.value = << >>]
    /\ history = << >>

\* the input directory does not exist
RejectDirectory ==
    /\ call.op = "convert_directory"
    /\ result.status = "pending"
    /\ ~call.arg.exists
    /\ result' = Raised("ValueError")
    /\ UNCHANGED <<parser, generator, decl, call, history>>

\* the loop iteration without the except clause: a failing file ends the run
ConvertNextFile_StopOnError ==
    /\ call.op = "convert_directory"
    /\ result.status = "pending"
    /\ call.arg.exists
    /\ Len(history) < Len(call.arg.var_files)
    /\ LET var_file == call.arg.var_files[Len(history) + 1]
           Done(r) ==
               /\ generator' = r.generator
               /\ history' = Append(history,
                                    [call |-> [op |-> "convert_file", arg |-> var_file],
                                     result |-> r.outcome])
               /\ result' = IF r.outcome.status = "returned"
                            THEN [result EXCEPT !.value = Append(@, r.outcome.value)]
                            ELSE r.outcome
       IN  Done(convert_file(var_file, generator))
    /\ UNCHANGED <<parser, decl, call>>

\* one iteration of the loop over var_files; result.value is generated_files
\* and history the files attempted so far
ConvertNextFile ==
    /\ call.op = "convert_directory"
    /\ result.status = "pending"
    /\ call.arg.exists
    /\ Len(history) < Len(call.arg.var_files)
    /\ LET var_file == call.arg.var_files[Len(history) + 1]
           Done(r) ==
               /\ generator' = r.generator
               /\ history' = Append(history,
                                    [call |-> [op |-> "convert_file", arg |-> var_file],
                                     result |-> r.outcome])
               /\ result' = IF r.outcome.status = "returned"
                            THEN [result EXCEPT !.value = Append(@, r.outcome.value)]
                            ELSE result
       IN  Done(convert_file(var_file, generator))
    /\ UNCHANGED <<parser, decl, call>>

\* the loop is over: return generated_files
ReturnGenerated ==
    /\ call.op = "convert_directory"
    /\ result.status = "pending"
    /\ call.arg.exists
    /\ Len(history) = Len(call.arg.var_files)
    /\ result' = Returned(result.value)
    /\ UNCHANGED <<parser, generator, decl, call, history>>

\* prop_type_str with its quotes removed, before it is cleaned
Unquote(type_str) ==
    IF \/ StartsWith(type_str, <<"\"">>) /\ EndsWith(type_str, <<"\"">>)
       \/ StartsWith(type_str, <<"'">>) /\ EndsWith(type_str, <<"'">>)
    THEN DropEnds(type_str)
    ELSE type_str

\* the calls the object branch makes for its fields when none of them
\* raises: _clean_expression on each matched type string
FieldCalls(property_pairs) ==
    { [op |-> "_clean_expression",
       arg |-> Unquote(ColonMatch(Strip(property_pairs[i])).type_str)] :
        i \in { j \in 1..Len(property_pairs) :
                  /\ Strip(property_pairs[j]) # << >>
                  /\ ColonMatch(Strip(property_pairs[j])).matched } }

\* the list branch recursing on its own expression
Callees_ListOnItself(expr) ==
    IF expr \in {KwString, KwNumber, KwBool, KwAny} THEN {}
    ELSE IF StartsWith(expr, KwList \o <<"(">>)
    THEN { [op |-> "_parse_expression", arg |-> expr] }
    ELSE IF StartsWith(expr, KwMap \o <<"(">>)
    THEN { [op |-> "_parse_expression", arg |-> _extract_inner_type(expr, KwMap)] }
    ELSE IF StartsWith(expr, KwSet \o <<"(">>)
    THEN { [op |-> "_parse_expression", arg |-> _extract_inner_type(expr, KwSet)] }
    ELSE IF StartsWith(expr, KwObject \o <<"(">>)
    THEN FieldCalls(_split_by_top_level_comma(
                        ObjectBody(_extract_inner_type(expr, KwObject))))
    ELSE IF StartsWith(expr, KwOptional \o <<"(">>)
    THEN LET Parts(parts) ==
                 IF parts = << >> THEN {}
                 ELSE { [op |-> "_parse_expression", arg |-> parts[1]] }
         IN  Parts(_extract_optional_parts(expr))
    ELSE {}

\* the calls _parse_expression(expr) makes that lead back to
\* _parse_expression, each with its argument
Callees(expr) ==
    IF expr \in {KwString, KwNumber, KwBool, KwAny} THEN {}
    ELSE IF StartsWith(expr, KwList \o <<"(">>)
    THEN { [op |-> "_parse_expression", arg |-> _extract_inner_type(expr, KwList)] }
    ELSE IF StartsWith(expr, KwMap \o <<"(">>)
    THEN { [op |-> "_parse_expression", arg |-> _extract_inner_type(expr, KwMap)] }
    ELSE IF StartsWith(expr, KwSet \o <<"(">>)
    THEN { [op |-> "_parse_expression", arg |-> _extract_inner_type(expr, KwSet)] }
    ELSE IF StartsWith(expr, KwObject \o <<"(">>)
    THEN FieldCalls(_split_by_top_level_comma(
                        ObjectBody(_extract_inner_type(expr, KwObject))))
    ELSE IF StartsWith(expr, KwOptional \o <<"(">>)
    THEN LET Parts(parts) ==
                 IF parts = << >> THEN {}
                 ELSE { [op |-> "_parse_expression", arg |-> parts[1]] }
         IN  Parts(_extract_optional_parts(expr))
    ELSE {}

\* parse_type_expression about to be followed along one path of its calls;
\* call is the call being executed and history the calls that led to it
InitTerm ==
    /\ parser = NewParser
    /\ generator = NewGenerator(TRUE)
    /\ \E t \in TermTexts :
          /\ decl = Special(t)
          /\ call = [op |-> "parse_type_expression", arg |-> t]
    /\ result = Pending
    /\ history = << >>

\* parse_type_expression calls _clean_expression on its argument
CallClean ==
    /\ call.op = "parse_type_expression"
    /\ result.status = "pending"
    /\ history' = Append(history, [call |-> call, result |-> result])
    /\ call' = [op |-> "_clean_expression", arg |-> call.arg]
    /\ UNCHANGED <<parser, generator, decl, result>>

\* one iteration of the while loop of _clean_expression
CleanIteration ==
    /\ call.op = "_clean_expression"
    /\ StartsWith(call.arg, InterpOpen) /\ EndsWith(call.arg, <<"}">>)
    /\ call' = [call EXCEPT !.arg = Slice(call.arg, 2, Len(call.arg) - 1)]
    /\ UNCHANGED <<parser, generator, decl, result, history>>

\* the loop is over: the stripped text goes to _parse_expression
CleanReturn ==
    /\ call.op = "_clean_expression"
    /\ ~(StartsWith(call.arg, InterpOpen) /\ EndsWith(call.arg, <<"}">>))
    /\ call' = [op |-> "_parse_expression", arg |-> Strip(call.arg)]
    /\ UNCHANGED <<parser, generator, decl, result, history>>

\* _parse_expression makes one of its calls
CallInner ==
    /\ call.op = "_parse_expression"
    /\ result.status = "pending"
    /\ call' \in Callees(call.arg)
    /\ history' = Append(history, [call |-> call, result |-> result])
    /\ UNCHANGED <<parser, generator, decl, result>>

\* _parse_expression has no call to make and returns
ReturnLeaf ==
    /\ call.op = "_parse_expression"
    /\ result.status = "pending"
    /\ Callees(call.arg) = {}
    /\ result' = Returned(EmptyDict)
    /\ UNCHANGED <<parser, generator, decl, call, history>>

NextTerm == CallClean \/ CleanIteration \/ CleanReturn \/ CallInner \/ ReturnLeaf

SpecParse == InitParse /\ [][ParseTypeExpression]_vars

SpecAgain == InitAgain /\ [][ParseTypeExpression \/ GenerateSchema \/ CallAgain]_vars

SpecSplit == InitSplit /\ [][SplitByTopLevelComma]_vars

SpecGen == InitGen /\ [][GenerateSchema]_vars

SpecEnum == InitEnum /\ [][AddValidationConstraints]_vars

SpecScope ==
    InitScope /\ [][ParseObjectContent \/ ParseExpression \/ ParseTypeExpression]_vars

SpecMulti == InitMulti /\ [][AddValidationConstraints]_vars

SpecDir == InitDir /\ [][RejectDirectory \/ ConvertNextFile \/ ReturnGenerated]_vars

SpecTerm == InitTerm /\ [][NextTerm]_vars

(***************************************************************************)
(* Properties of _split_by_top_level_comma                                 *)
(***************************************************************************)
RECURSIVE OpenQuote(_, _)
\* the quote character that is open after the first n characters of text,
\* "" when none: a quote opens a string, the same quote closes it
OpenQuote(text, n) ==
    IF n = 0 THEN ""
    ELSE LET before == OpenQuote(text, n - 1)
         IN  IF before = "" THEN (IF IsQuote(text[n]) THEN text[n] ELSE "")
             ELSE IF text[n] = before THEN "" ELSE before

\* character i of text is outside every quoted string
OutsideString(text, i) == OpenQuote(text, i - 1) = "" /\ ~IsQuote(text[i])

\* how many c occur outside strings before position i
CountBefore(text, i, c) ==
    Cardinality({ j \in 1..(i - 1) : text[j] = c /\ OutsideString(text, j) })

\* depth of one bracket kind at position i
DepthAt(text, i, open, close) ==
    CountBefore(text, i, open) - CountBefore(text, i, close)

TopLevelCommas(text) ==
    { i \in 1..Len(text) :
        /\ text[i] = ","
        /\ OutsideString(text, i)
        /\ DepthAt(text, i, "(", ")") = 0
        /\ DepthAt(text, i, "{", "}") = 0
        /\ DepthAt(text, i, "[", "]") = 0 }

RECURSIVE SegmentsFrom(_, _, _)
\* the stripped pieces of text[from..] between the given cut positions; the
\* piece after the last cut is left out when it is blank
SegmentsFrom(text, from, cuts) ==
    LET later == { i \in cuts : i >= from }
    IN  IF later = {}
        THEN (IF Strip(SubSeq(text, from, Len(text))) = << >> THEN << >>
              ELSE <<Strip(SubSeq(text, from, Len(text)))>>)
        ELSE LET cut == CHOOSE i \in later : \A j \in later : i <= j
             IN  <<Strip(SubSeq(text, from, cut - 1))>>
                 \o SegmentsFrom(text, cut + 1, cuts)

SplitExample == <<"a","(","b",",","c",")",",","d">>

SplitDone == call.op = "_split_by_top_level_comma" /\ result.status = "returned"

\* C10: the segments _split_by_top_level_comma returns are the pieces of the
\* text between exactly those commas that lie outside quoted strings and at
\* depth 0 of (), {} and []; in particular a(b,c),d gives a(b,c) and d, and
\* no comma inside brackets or quotes separates two segments
C10_SplitsOnlyAtTopLevel ==
    SplitDone =>
        /\ result.value = SegmentsFrom(call.arg, 1, TopLevelCommas(call.arg))
        /\ call.arg = SplitExample =>
              result.value = << <<"a","(","b",",","c",")">>, <<"d">> >>

\* a text with a comma inside parentheses and a comma after them
C10_Witness ==
    /\ SplitDone
    /\ call.arg = <<"(", ",", ")", ",">>
    /\ result.value = << <<"(", ",", ")">> >>

(***************************************************************************)
(* Reading a compiled schema along the declared chain                      *)
(***************************************************************************)
Colon == <<":", " ">>

ParseDone == call.op = "parse_type_expression" /\ result.status # "pending"

ParseReturned == call.op = "parse_type_expression" /\ result.status = "returned"

\* a chain declaration whose text is complete
Intact == decl.style # "special" /\ decl.cut = 0

Missing == [found |-> FALSE, node |-> EmptyDict]

RECURSIVE NodeAt(_, _, _)
\* the schema node that compiles what is left of the declaration after the
\* constructors of `chain`, read from `schema` downwards
NodeAt(schema, chain, style) ==
    IF chain = << >> THEN [found |-> TRUE, node |-> schema]
    ELSE LET k == Head(chain)
         IN  CASE k \in {"list", "set"} ->
                    IF HasKey(schema, "items")
                    THEN NodeAt(schema.items, Tail(chain), style)
                    ELSE Missing
               [] k = "map" ->
                    IF HasKey(schema, "additionalProperties")
                       /\ schema.additionalProperties # PyTrue
                    THEN NodeAt(schema.additionalProperties, Tail(chain), style)
                    ELSE Missing
               [] k = "object" ->
                    IF HasKey(schema, "properties")
                       /\ HasProp(schema.properties, ChildName(style))
                    THEN NodeAt(PropSchema(schema.properties, ChildName(style)),
                                Tail(chain), style)
                    ELSE Missing
               [] k = "optional" -> NodeAt(schema, Tail(chain), style)

\* the node compiled for the constructor at position n of the declared chain
DeclNode(n) == NodeAt(result.value, SubSeq(decl.chain, 1, n - 1), decl.style)

IsKind(n, kind) == n \in 1..Len(decl.chain) /\ decl.chain[n] = kind

\* how many objects the chain opens up to and including position n
ObjectLevel(n) == Cardinality({ i \in 1..n : decl.chain[i] = "object" })

\* how many lists, sets, maps and objects enclose position n
Enclosing(n) == Cardinality({ i \in 1..(n - 1) : decl.chain[i] # "optional" })

RequiredSet(node) ==
    IF HasKey(node, "required")
    THEN { node.required[i] : i \in 1..Len(node.required) }
    ELSE {}

HasId(node) == HasKey(node, "properties") /\ HasProp(node.properties, KwId)

\* the object at position n declares a field named id itself
DeclaresId(n) == decl.style = "id"

\* the child field of the object at position n is wrapped in optional(...)
ChildOptional(n) == IsKind(n + 1, "optional")

\* the names the object at position n declares without an optional wrapper,
\* id excepted
PlainFields(n) ==
    (IF HasSibling(decl.style) /\ ~SiblingOptional(decl.style, ObjectLevel(n))
     THEN {FieldA} ELSE {})
    \cup (IF ~ChildOptional(n) /\ ChildName(decl.style) # KwId
          THEN {ChildName(decl.style)} ELSE {})

HasDefaultX(properties, name) ==
    /\ HasProp(properties, name)
    /\ HasKey(PropSchema(properties, name), "default")
    /\ PropSchema(properties, name).default = PyStr(DefaultX)

(***************************************************************************)
(* Properties of parse_type_expression                                     *)
(***************************************************************************)
\* C1: in every object of a compiled type expression, the outermost one
\* included, the required list holds exactly the fields declared without an
\* optional wrapper (id excepted), and a field declared optional(T, "x")
\* carries default "x"
C1_OptionalFieldsNotRequired ==
    (ParseReturned /\ Intact /\ decl.sep = Colon) =>
        \A n \in 1..Len(decl.chain) :
            (IsKind(n, "object") /\ DeclNode(n).found) =>
                LET node == DeclNode(n).node
                IN  /\ HasKey(node, "properties")
                    /\ RequiredSet(node) = PlainFields(n)
                    /\ decl.style = "default" =>
                          /\ HasDefaultX(node.properties, FieldA)
                          /\ ChildOptional(n) =>
                                HasDefaultX(node.properties, ChildName(decl.style))

\* the synthetic identifier property as the element object must carry it
IsSyntheticId(node) ==
    /\ HasId(node)
    /\ LET id == PropSchema(node.properties, KwId)
       IN  /\ TypeOf(id) = "string"
           /\ HasKey(id, "default") /\ id.default = PyStr(<< >>)
           /\ HasKey(id, "options") /\ id.options.hidden

C3_NoIdBelowTwoContainers ==
    (ParseReturned /\ Intact /\ decl.sep = Colon) =>
        \A n \in 1..Len(decl.chain) :
            (/\ IsKind(n, "list") /\ IsKind(n + 1, "object")
             /\ Enclosing(n) >= 2
             /\ DeclNode(n + 1).found
             /\ ~DeclaresId(n + 1)) =>
                ~HasId(DeclNode(n + 1).node)

\* C4: nested object scopes are isolated: whether an object lists its field a
\* as required depends only on how that object declares a, at every level of
\* object({a: optional(string), b: object({a: string, ...})}) and of the
\* declaration with the two roles swapped
C4_ScopesIsolated ==
    (ParseReturned /\ Intact /\ decl.sep = Colon
     /\ decl.style \in {"optPlain", "plainOpt"}) =>
        \A n \in 1..Len(decl.chain) :
            (IsKind(n, "object") /\ DeclNode(n).found) =>
                (FieldA \in RequiredSet(DeclNode(n).node)
                 <=> ~SiblingOptional(decl.style, ObjectLevel(n)))

\* how many c the text holds
Count(text, c) == Cardinality({ i \in 1..Len(text) : text[i] = c })

\* every bracket of the text is closed, and none closes before it opens
Balanced(text) ==
    \A pair \in {<<"(", ")">>, <<"{", "}">>, <<"[", "]">>} :
        /\ Count(text, pair[1]) = Count(text, pair[2])
        /\ \A n \in 1..Len(text) :
              Count(SubSeq(text, 1, n), pair[1]) >= Count(SubSeq(text, 1, n), pair[2])

\* the text ends with an opening parenthesis still unmatched
UnmatchedOpen(text) == Count(text, "(") > Count(text, ")")

\* C8: compiling a type expression with an unmatched opening delimiter ends
\* in an UnbalancedDelimiter error and returns no schema node
C8_UnbalancedFails ==
    (ParseDone /\ UnmatchedOpen(call.arg)) =>
        /\ result.status = "raised"
        /\ result.error = "UnbalancedDelimiter"

\* C9: parse_type_expression raises for no text whose delimiters are
\* balanced: unknown words, the empty text and degenerate forms give a
\* fallback schema
C9_BalancedNeverRaises ==
    (ParseDone /\ Balanced(call.arg)) => result.status = "returned"

(***************************************************************************)
(* Properties of generate_schema                                           *)
(***************************************************************************)
GenReturned == call.op = "generate_schema" /\ result.status = "returned"

RECURSIVE NoIdRequired(_)
\* no object node at or below this one lists id as required
NoIdRequired(node) ==
    /\ KwId \notin RequiredSet(node)
    /\ HasKey(node, "properties") =>
          \A i \in 1..Len(node.properties) : NoIdRequired(node.properties[i].schema)
    /\ HasKey(node, "items") => NoIdRequired(node.items)
    /\ (HasKey(node, "additionalProperties") /\ node.additionalProperties # PyTrue) =>
          NoIdRequired(node.additionalProperties)

\* C5: in the document generate_schema returns, whatever the variable
\* definitions (text type, structured type, no type), no object node lists
\* the name id in required
C5_IdNeverRequired == GenReturned => NoIdRequired(result.value)

\* C6: the root of the document generate_schema returns has an empty required
\* list and additionalProperties true, and its properties are the variables,
\* one each, whether or not they have defaults
C6_RootNeverRequires ==
    GenReturned =>
        LET root == result.value
        IN  /\ root.required = << >>
            /\ root.additionalProperties = PyTrue
            /\ Len(root.properties) = Len(call.arg)
            /\ \A i \in 1..Len(call.arg) : root.properties[i].name = call.arg[i].key

\* two variables, the first without a default and the second with one
C6_Witness ==
    /\ GenReturned
    /\ Len(call.arg) = 2
    /\ ~InDict(call.arg[1].value, KeyDefault)
    /\ InDict(call.arg[1].value, KeyType)
    /\ InDict(call.arg[2].value, KeyDefault)
    /\ PropNames(result.value.properties) = <<VarName(1), VarName(2)>>
    /\ result.value.required = << >>

(***************************************************************************)
(* Properties of _add_validation_constraints                               *)
(***************************************************************************)
RemoveKey(dict, key) == [k \in DOMAIN dict \ {key} |-> dict[k]]

RECURSIVE EraseEnum(_, _, _)
\* the node without the enum of the properties called `name`; `here` tells
\* that the node is itself such a property
EraseEnum(node, name, here) ==
    LET n1 == IF here /\ HasKey(node, "enum") THEN RemoveKey(node, "enum") ELSE node
        n2 == IF HasKey(n1, "properties")
              THEN [n1 EXCEPT !.properties =
                       [i \in 1..Len(n1.properties) |->
                           [name |-> n1.properties[i].name,
                            schema |-> EraseEnum(n1.properties[i].schema, name,
                                                 n1.properties[i].name = name)]]]
              ELSE n1
        n3 == IF HasKey(n2, "items")
              THEN [n2 EXCEPT !.items = EraseEnum(n2.items, name, FALSE)]
              ELSE n2
    IN  IF HasKey(n3, "additionalProperties") /\ n3.additionalProperties # PyTrue
        THEN [n3 EXCEPT !.additionalProperties =
                            EraseEnum(n3.additionalProperties, name, FALSE)]
        ELSE n3

RECURSIVE EnumOnlyOn(_, _, _)
\* no node at or below this one has an enum, properties called `name` apart
EnumOnlyOn(node, name, here) ==
    /\ ~here => ~HasKey(node, "enum")
    /\ HasKey(node, "properties") =>
          \A i \in 1..Len(node.properties) :
              EnumOnlyOn(node.properties[i].schema, name,
                         node.properties[i].name = name)
    /\ HasKey(node, "items") => EnumOnlyOn(node.items, name, FALSE)
    /\ (HasKey(node, "additionalProperties") /\ node.additionalProperties # PyTrue) =>
          EnumOnlyOn(node.additionalProperties, name, FALSE)

\* contains(["x","y"], item.region) was applied to an array schema whose
\* items are objects with a property region
RegionConditionApplied ==
    /\ call.op = "_add_validation_constraints"
    /\ result.status = "returned"
    /\ call.arg.validations = <<Validation(ContainsItemRegion)>>
    /\ TypeOf(call.arg.schema) = "array"
    /\ HasKey(call.arg.schema, "items")
    /\ HasKey(call.arg.schema.items, "properties")
    /\ HasProp(call.arg.schema.items.properties, FieldRegion)

\* C7: applying contains(["x","y"], item.region) to the schema of a variable
\* whose array items are objects with a property region sets enum ["x","y"]
\* on that property, gives no property of another name an enum, and changes
\* nothing else
C7_EnumOnRegionOnly ==
    RegionConditionApplied =>
        LET after == result.value
            region == PropSchema(after.items.properties, FieldRegion)
        IN  /\ HasKey(region, "enum")
            /\ region.enum = << <<"x">>, <<"y">> >>
            /\ EnumOnlyOn(after, FieldRegion, FALSE)
            /\ EraseEnum(after, FieldRegion, FALSE) = call.arg.schema

\* list(object({region: string, name: string})): region gets the enum, name
\* and the injected id do not
C7_Witness ==
    /\ RegionConditionApplied
    /\ decl.special = ListOfRegion
    /\ LET properties == result.value.items.properties
       IN  /\ PropNames(properties) = <<FieldRegion, FieldName, KwId>>
           /\ PropSchema(properties, FieldRegion).enum = << <<"x">>, <<"y">> >>
           /\ ~HasKey(PropSchema(properties, FieldName), "enum")
           /\ PropSchema(properties, KwId) = IdSchema

(***************************************************************************)
(* Properties of calls repeated on the same instances                      *)
(***************************************************************************)
\* the outcome of the call on instances that have served no call yet
FreshOutcome(c) ==
    IF c.op = "parse_type_expression"
    THEN Outcome(parse_type_expression(c.arg, NewParser))
    ELSE Outcome(generate_schema(c.arg, NewGenerator(generator.add_uuid_selectively)))

\* an earlier call with the same input had the same outcome
SameAsBefore ==
    \A i \in 1..Len(history) : history[i].call = call => history[i].result = result

\* the i-th variable of the set has the schema it has when compiled alone
SameAlone(i) ==
    LET Alone(alone) ==
            /\ alone.status = "returned"
            /\ alone.value.properties[1].schema = result.value.properties[i].schema
    IN  Alone(FreshOutcome([op |-> "generate_schema", arg |-> <<call.arg[i]>>]))

\* C11: a call of parse_type_expression or generate_schema on instances that
\* have served other calls, failed ones included, has the outcome it has on
\* new instances, so the same input twice gives the same schema tree; and
\* every variable of a set gets the schema it gets when compiled alone
C11_CompilationStateless ==
    (call.op \in {"parse_type_expression", "generate_schema"}
     /\ result.status # "pending") =>
        /\ result = FreshOutcome(call)
        /\ SameAsBefore
        /\ GenReturned => \A i \in 1..Len(call.arg) : SameAlone(i)

\* list(object({region: string, name: string})) compiled twice by one parser,
\* which the first call left with id in its optional set
C11_Witness ==
    /\ ParseReturned
    /\ Len(history) = 1
    /\ history[1].call = call
    /\ call.arg = ListOfRegion
    /\ parser.optional_fields = {KwId}
    /\ history[1].result = result
    /\ IsSyntheticId(result.value.items)

(***************************************************************************)
(* Properties of the primitive keywords                                    *)
(***************************************************************************)
\* the type expression was compiled to exactly this schema
CompiledTo(text, schema) ==
    (ParseDone /\ call.arg = text) => result = Returned(schema)

\* C12 as stated: the type expressions string, number and boolean compile to
\* exactly {type: string}, {type: number} and {type: boolean}, and any to the
\* schema without fields
C12_PrimitiveKeywords ==
    /\ CompiledTo(KwString, [type |-> "string"])
    /\ CompiledTo(KwNumber, [type |-> "number"])
    /\ CompiledTo(KwBoolean, [type |-> "boolean"])
    /\ CompiledTo(KwAny, EmptyDict)

\* C12 amended: the keywords are string, number and bool; they compile to
\* exactly {type: string}, {type: number} and {type: boolean}, and any to the
\* schema without fields, also with blanks around the keyword
C12_PrimitiveSchemas ==
    /\ CompiledTo(KwString, [type |-> "string"])
    /\ CompiledTo(KwNumber, [type |-> "number"])
    /\ CompiledTo(KwBool, [type |-> "boolean"])
    /\ CompiledTo(KwAny, EmptyDict)
    /\ CompiledTo(<<" ">> \o KwString \o <<" ">>, [type |-> "string"])

\* bool compiled to {type: boolean}
C12_Witness ==
    /\ ParseReturned
    /\ call.arg = KwBool
    /\ result.value = [type |-> "boolean"]
    /\ DOMAIN result.value = {"type"}

(***************************************************************************)
(* Properties of the default of optional(T, d)                             *)
(***************************************************************************)
LiteralDone == ParseDone /\ decl.style = "literal"

\* the schema of the field a has the default the case asks for
DefaultAsDecoded(c, a) ==
    /\ c.decodable => (HasKey(a, "default") /\ a.default = c.value)
    /\ ~c.decodable => ~HasKey(a, "default")
    /\ HasKey(a, "default") => a.default # PyStr(c.text)

\* C13: compiling object({a: optional(T, d)}) returns, and the property a has
\* as default the value the literal text d denotes (a string's content, a
\* number, a boolean, null, a sequence or a mapping, empty or nested), has no
\* default when d denotes no literal, and never has the text d itself
C13_DefaultDecoded ==
    LiteralDone =>
        /\ result.status = "returned"
        /\ HasKey(result.value, "properties")
        /\ HasProp(result.value.properties, FieldA)
        /\ DefaultAsDecoded(LiteralCase(decl.special),
                            PropSchema(result.value.properties, FieldA))

(***************************************************************************)
(* Properties of the optional set of an object scope                       *)
(***************************************************************************)
ScopeDone == call.op = "_parse_object_content" /\ result.status = "returned"

\* the fields of {a: T1, b: T2} whose declared type is optional(...) itself
DeclaredOptional ==
    (IF StartsWith(decl.chain[1], KwOptional \o <<"(">>) THEN {FieldA} ELSE {})
    \cup (IF StartsWith(decl.chain[2], KwOptional \o <<"(">>) THEN {FieldB} ELSE {})

\* C14: when _parse_object_content has parsed the fields of {a: T1, b: T2},
\* the optional set of the scope holds exactly the fields whose declared type
\* is an optional(...) wrapper itself: no field whose type has the wrapper
\* only inside list(...), set(...) or map(...), and no other name
C14_OptionalSetExact ==
    ScopeDone => result.value.local_optional_fields = DeclaredOptional

(***************************************************************************)
(* Properties of conditions that constrain nothing                         *)
(***************************************************************************)
EnumDone == call.op = "_add_validation_constraints" /\ result.status # "pending"

ConditionZName == Contains(<<"[">> \o Quoted(<<"z">>) \o <<"]">>, Dotted(KeyItem, FieldName))

\* the property a validation block's condition tests with contains([...],
\* path.property), the empty name when it has no such test
PropertyTested(validation) ==
    IF ~InDict(validation, KeyCondition) THEN << >>
    ELSE LET condition == Lookup(validation, KeyCondition).text
         IN  IF \A i \in 1..(Len(condition) - Len(KwContains) + 1) :
                    SubSeq(condition, i, i + Len(KwContains) - 1) # KwContains
             THEN << >>
             ELSE IF condition = ConditionZName THEN FieldName
             ELSE FieldRegion

RECURSIVE Occurs(_, _)
\* a property of this name occurs at or below the node
Occurs(node, name) ==
    \/ /\ HasKey(node, "properties")
       /\ \E i \in 1..Len(node.properties) :
             \/ node.properties[i].name = name
             \/ Occurs(node.properties[i].schema, name)
    \/ HasKey(node, "items") /\ Occurs(node.items, name)
    \/ /\ HasKey(node, "additionalProperties")
       /\ node.additionalProperties # PyTrue
       /\ Occurs(node.additionalProperties, name)

\* every block of the list has no contains test or tests a property that
\* occurs nowhere in the schema
NothingToConstrain ==
    \A i \in 1..Len(call.arg.validations) :
        LET Tested(name) == name = << >> \/ ~Occurs(call.arg.schema, name)
        IN  Tested(PropertyTested(call.arg.validations[i]))

\* C15: when every validation condition has no contains([...],
\* path.property) test or tests a property that occurs nowhere in the
\* variable's schema (a scalar schema included), _add_validation_constraints
\* returns and the schema is what it was
C15_NoMatchNoChange ==
    (EnumDone /\ NothingToConstrain) =>
        /\ result.status = "returned"
        /\ result.value = call.arg.schema

\* contains(["x","y"], item.region) and a condition without contains, applied
\* to the schema of a string and to a list of objects without region
C15_Witness ==
    /\ EnumDone
    /\ Len(call.arg.validations) = 2
    /\ PropertyTested(call.arg.validations[1]) = FieldRegion
    /\ PropertyTested(call.arg.validations[2]) = << >>
    /\ InDict(call.arg.validations[2], KeyCondition)
    /\ call.arg.schema = [type |-> "string"]
    /\ result.value = [type |-> "string"]

(***************************************************************************)
(* Properties of the add_uuid_selectively flag                             *)
(***************************************************************************)
RECURSIVE NoSyntheticId(_)
\* no object node at or below this one has the synthetic property id
NoSyntheticId(node) ==
    /\ ~IsSyntheticId(node)
    /\ HasKey(node, "properties") =>
          \A i \in 1..Len(node.properties) : NoSyntheticId(node.properties[i].schema)
    /\ HasKey(node, "items") => NoSyntheticId(node.items)
    /\ (HasKey(node, "additionalProperties") /\ node.additionalProperties # PyTrue) =>
          NoSyntheticId(node.additionalProperties)

\* C16: when the generator was constructed with add_uuid_selectively False,
\* the document generate_schema returns has the synthetic property id
\* nowhere, whether the variables' types are text or structured
C16_NoUuidFlagNoId ==
    (GenReturned /\ ~generator.add_uuid_selectively) => NoSyntheticId(result.value)

(***************************************************************************)
(* Properties of the fields of an object body                              *)
(***************************************************************************)
\* the names an object of the declaration declares, in the order written
DeclaredNames ==
    (IF HasSibling(decl.style) THEN <<FieldA>> ELSE << >>) \o <<ChildName(decl.style)>>

\* the properties start with the declared names, one entry each and in the
\* order written, and only the synthetic id follows them
PropertiesAsDeclared(node) ==
    /\ HasKey(node, "properties")
    /\ Len(node.properties) >= Len(DeclaredNames)
    /\ \A i \in 1..Len(node.properties) :
          IF i <= Len(DeclaredNames)
          THEN node.properties[i].name = DeclaredNames[i]
          ELSE node.properties[i].name = KwId /\ IsSyntheticId(node)
    /\ HasSibling(decl.style) =>
          TypeOf(PropSchema(node.properties, FieldA)) = "string"

\* C17: every object of a compiled declaration, its fields written name = T
\* or name: T, has one property for each declared field, in the order
\* written, the field a being a string; no declared field is missing
C17_EveryFieldYieldsProperty ==
    (ParseReturned /\ Intact) =>
        \A n \in 1..Len(decl.chain) :
            IsKind(n, "object") =>
                /\ DeclNode(n).found
                /\ PropertiesAsDeclared(DeclNode(n).node)

(***************************************************************************)
(* Properties of whitespace in a type expression                           *)
(***************************************************************************)
SpacedDone == ParseDone /\ decl.style = "spaced"

\* C18: a type expression with a space or a line break put between two of
\* its tokens compiles to the schema of the expression without it
C18_WhitespaceInsignificant ==
    SpacedDone =>
        \A c \in SpacedCases :
            c.text = call.arg =>
                LET Same(compact) == /\ result.status = "returned"
                                     /\ compact.raised = ""
                                     /\ result.value = compact.schema
                IN  Same(parse_type_expression(c.compact, NewParser))

(***************************************************************************)
(* Properties of escaped quotes in _split_by_top_level_comma               *)
(***************************************************************************)
RECURSIVE QuoteState(_, _)
\* the quote that is open after the first n characters of text and whether
\* the last character was the escape character, when a backslash inside a
\* string escapes the character after it
QuoteState(text, n) ==
    IF n = 0 THEN [open |-> "", escaped |-> FALSE]
    ELSE LET After(before) ==
                 IF before.open = ""
                 THEN [open |-> IF IsQuote(text[n]) THEN text[n] ELSE "",
                       escaped |-> FALSE]
                 ELSE IF before.escaped THEN [open |-> before.open, escaped |-> FALSE]
                 ELSE IF text[n] = "\\" THEN [open |-> before.open, escaped |-> TRUE]
                 ELSE IF text[n] = before.open THEN [open |-> "", escaped |-> FALSE]
                 ELSE [open |-> before.open, escaped |-> FALSE]
         IN  After(QuoteState(text, n - 1))

\* character i of text is outside every quoted string, escapes honoured
OutsideEscaped(text, i) == QuoteState(text, i - 1).open = "" /\ ~IsQuote(text[i])

\* depth of one bracket kind at position i, escapes honoured
DepthEscaped(text, i, open, close) ==
    Cardinality({ j \in 1..(i - 1) : text[j] = open /\ OutsideEscaped(text, j) })
    - Cardinality({ j \in 1..(i - 1) : text[j] = close /\ OutsideEscaped(text, j) })

BoundaryCommas(text) ==
    { i \in 1..Len(text) :
        /\ text[i] = ","
        /\ OutsideEscaped(text, i)
        /\ DepthEscaped(text, i, "(", ")") = 0
        /\ DepthEscaped(text, i, "{", "}") = 0
        /\ DepthEscaped(text, i, "[", "]") = 0 }

\* C19: the segments _split_by_top_level_comma returns are cut at the commas
\* outside brackets and outside quoted strings, an escaped quote inside a
\* string not ending it, and only a blank piece after the last cut is left
\* out
C19_EscapedQuoteKeepsString ==
    SplitDone => result.value = SegmentsFrom(call.arg, 1, BoundaryCommas(call.arg))

(***************************************************************************)
(* Properties of the path in a contains test                               *)
(***************************************************************************)
\* the references the property region is read from: an iterator, a variable
\* and a dotted reference
RegionPaths == {KeyItem, <<"v","a","r">>, <<"e","a","c","h",".","v","a","l","u","e">>}

\* contains(["x","y"], p.region), p one of the paths, was applied to an
\* array schema whose items are objects with a property region
PathConditionApplied ==
    /\ EnumDone
    /\ \E p \in RegionPaths :
          call.arg.validations = <<Validation(Contains(ValuesXY, Dotted(p, FieldRegion)))>>
    /\ TypeOf(call.arg.schema) = "array"
    /\ HasKey(call.arg.schema, "items")
    /\ HasKey(call.arg.schema.items, "properties")
    /\ HasProp(call.arg.schema.items.properties, FieldRegion)

\* C20: contains(["x","y"], p.region) sets enum ["x","y"] on the property
\* region and changes nothing else, whether p is item, var or the dotted
\* reference each.value
C20_AnyPathSameEnum ==
    PathConditionApplied =>
        /\ result.status = "returned"
        /\ LET With(region) == HasKey(region, "enum") /\ region.enum = << <<"x">>, <<"y">> >>
           IN  With(PropSchema(result.value.items.properties, FieldRegion))
        /\ EnumOnlyOn(result.value, FieldRegion, FALSE)
        /\ EraseEnum(result.value, FieldRegion, FALSE) = call.arg.schema

(***************************************************************************)
(* Properties of conditions with several contains tests                    *)
(***************************************************************************)
MultiDone ==
    /\ call.op = "_add_validation_constraints"
    /\ result.status = "returned"
    /\ \A i \in 1..Len(call.arg.validations) :
          \E c \in MultiCases : call.arg.validations[i] = Validation(ConditionOf(c))

RECURSIVE TestsOf(_)
\* the tests of the validation blocks, in the order written
TestsOf(validations) ==
    IF validations = << >> THEN << >>
    ELSE (CHOOSE c \in MultiCases : Head(validations) = Validation(ConditionOf(c)))
         \o TestsOf(Tail(validations))

\* the list of the last test that names the property, no value when no test
\* names it
LastList(tests, name) ==
    LET naming == { i \in 1..Len(tests) : tests[i].name = name }
    IN  IF naming = {} THEN << >>
        ELSE <<tests[CHOOSE i \in naming : \A j \in naming : j <= i].value>>

RECURSIVE EnumEverywhere(_, _, _)
\* every property called `name` at or below the node, through items and
\* properties, has exactly this enum, none when the list is empty
EnumEverywhere(node, name, values) ==
    /\ HasKey(node, "properties") =>
          \A i \in 1..Len(node.properties) :
              /\ node.properties[i].name = name =>
                    IF values = << >> THEN ~HasKey(node.properties[i].schema, "enum")
                    ELSE /\ HasKey(node.properties[i].schema, "enum")
                         /\ node.properties[i].schema.enum = values
              /\ EnumEverywhere(node.properties[i].schema, name, values)
    /\ HasKey(node, "items") => EnumEverywhere(node.items, name, values)

\* C21: after _add_validation_constraints every property named by a test,
\* at any depth below items and properties, carries the list of the last
\* test that names it, each test constraining its own property, whether the
\* tests stand in one condition or in several validation blocks
C21_EveryTestConstrainsItsProperty ==
    MultiDone =>
        LET Each(tests) ==
                \A name \in {FieldRegion, FieldName} :
                    EnumEverywhere(result.value, name, LastList(tests, name))
        IN  Each(TestsOf(call.arg.validations))

(***************************************************************************)
(* Properties of convert_directory                                         *)
(***************************************************************************)
DirRun == call.op = "convert_directory" /\ call.arg.exists

\* the file converts when taken alone by a converter of its own
ConvertsAlone(var_file) ==
    /\ var_file.content.parses
    /\ var_file.content.writable
    /\ generate_schema(var_file.content.variables, NewGenerator(TRUE)).raised = ""

RECURSIVE OutputsOf(_)
\* the outputs of those files that convert alone, in the order of the files
OutputsOf(var_files) ==
    IF var_files = << >> THEN << >>
    ELSE (IF ConvertsAlone(Head(var_files)) THEN <<OutputFile(Head(var_files))>>
          ELSE << >>)
         \o OutputsOf(Tail(var_files))

\* C22: convert_directory attempts the discovered files one by one in
\* discovery order, each once; a file that fails ends neither the run nor
\* the attempts on later files; the list it returns is reached only after
\* all files were attempted and holds the outputs of exactly the files that
\* convert, in that order
C22_EveryFileAttempted ==
    DirRun =>
        /\ Len(history) <= Len(call.arg.var_files)
        /\ \A i \in 1..Len(history) :
              /\ history[i].call.arg = call.arg.var_files[i]
              /\ (history[i].result.status = "returned")
                    = ConvertsAlone(call.arg.var_files[i])
        /\ result.status # "raised"
        /\ result.status = "returned" => Len(history) = Len(call.arg.var_files)
        /\ result.value = OutputsOf(SubSeq(call.arg.var_files, 1, Len(history)))

\* three files: the first is rejected by the loader, the second has a type
\* that raises, the third converts and is the only output
C22_Witness ==
    /\ DirRun
    /\ result.status = "returned"
    /\ Len(call.arg.var_files) = 3
    /\ ~call.arg.var_files[1].content.parses
    /\ call.arg.var_files[2].content.parses
    /\ history[2].result.status = "raised"
    /\ history[3].result.status = "returned"
    /\ result.value = <<OutputFile(call.arg.var_files[3])>>

(***************************************************************************)
(* Properties of the scope and depth bookkeeping                           *)
(***************************************************************************)
\* the step in which the pending call returns
CallReturns == result.status = "pending" /\ result'.status = "returned"

\* the bookkeeping of the parser after the returning step, against the
\* parser the call was made on
BookkeepingBalanced ==
    /\ call.op = "_parse_object_content" =>
          /\ parser'.optional_fields = parser.optional_fields
          /\ parser'.current_depth = parser.current_depth
          /\ FieldP \notin result'.value.local_optional_fields
    /\ call.op = "_parse_expression" =>
          parser'.current_depth = parser.current_depth
    /\ call.op = "parse_type_expression" =>
          parser'.current_depth = 0

\* C23: when _parse_object_content returns, the parser's optional set is the
\* set it was called with, and the set of the object itself was started
\* empty (the enclosing scope's name p is not in it); when _parse_expression
\* returns from list(...), current_depth is what it was on entry; when
\* parse_type_expression returns, current_depth is 0
C23_BookkeepingBalanced == [][CallReturns => BookkeepingBalanced]_vars

\* an object body parsed in the scope of p recorded its own optional field a
\* and left the enclosing set as it was
C23_Witness ==
    /\ ScopeDone
    /\ parser.optional_fields = {FieldP}
    /\ result.value.local_optional_fields = {FieldA}
    /\ decl.chain[1] = Call(KwOptional, KwString)

(***************************************************************************)
(* Properties of the calls parse_type_expression makes                     *)
(***************************************************************************)
\* the call that made the current one
Caller == history[Len(history)].call

\* a call of _parse_expression made by _parse_expression has a strictly
\* shorter argument than its caller
RecursionShrinks ==
    (/\ call.op = "_parse_expression"
     /\ history # << >>
     /\ Caller.op = "_parse_expression") => Len(call.arg) < Len(Caller.arg)

\* an iteration of the loop of _clean_expression leaves a strictly shorter
\* text
CleanShrinks ==
    (call.op = "_clean_expression" /\ call'.op = "_clean_expression") =>
        Len(call'.arg) < Len(call.arg)

\* what is left to do: the length of the text in hand, then the place in
\* parse_type_expression (before cleaning, cleaning, parsing), then whether
\* the call in hand has returned
Variant ==
    4 * Len(call.arg)
    + (CASE call.op = "parse_type_expression" -> 2
         [] call.op = "_clean_expression" -> 1
         [] OTHER -> 0)
    + (IF result.status = "pending" THEN 1 ELSE 0)

\* C24: on every text, balanced or not, every call of _parse_expression made
\* from _parse_expression has a strictly shorter argument than its caller,
\* every iteration of the loop of _clean_expression strictly shortens the
\* text, and every step of a path of calls started by parse_type_expression
\* lowers a natural number, so that every path ends
C24_ParseTerminates ==
    /\ []RecursionShrinks
    /\ [][CleanShrinks /\ Variant' < Variant]_vars

\* a text with more opening than closing parentheses, in two wrappers: both
\* are stripped, then calls of _parse_expression follow one another down to
\* a call that makes none
C24_Witness ==
    /\ result.status = "returned"
    /\ StartsWith(decl.special, InterpOpen \o InterpOpen)
    /\ Len(history) >= 3
    /\ Cardinality({ i \in 1..Len(decl.special) : decl.special[i] = "(" })
          > Cardinality({ i \in 1..Len(decl.special) : decl.special[i] = ")" })

====
